---------------------------- MODULE Spec2Model ----------------------------
(***************************************************************************)
(* Multi-tenant console backend: tenants, memberships and roles            *)
(* (services/tenant_service.py, repositories/tenant_repository.py), the    *)
(* members endpoints (controllers/console/tenant/tenant_bp.py), login      *)
(* (services/auth_service.py) and the model-provider credential lifecycle  *)
(* (services/model_provider_service.py).                                   *)
(*                                                                         *)
(* Rows of the relational store are the state.  A service call is one      *)
(* action in the sequential specifications; in the concurrent              *)
(* specification every store round-trip of a call is a step of its own.    *)
(***************************************************************************)
EXTENDS Integers, Sequences, FiniteSets, TLC

(***************************************************************************)
(* Bounds of the model.                                                    *)
(***************************************************************************)
NumAccounts == 3
MaxTenants == 2
\* the model provider rows ever created
MaxProviders == 2

(***************************************************************************)
(* Program constants.                                                      *)
(***************************************************************************)
MaxNameLength == 100

AccountIds == 1..NumAccounts
\* an id that names no account row
MissingAccount == NumAccounts + 1
TenantIds == 1..MaxTenants

None == "none"
OWNER == "owner"
ADMIN == "admin"
MEMBER == "member"
TenantRole == {OWNER, ADMIN, MEMBER}

\* services/exceptions.py
OK == "ok"
ValidationError == "ValidationError"
AuthenticationError == "AuthenticationError"
AuthorizationError == "AuthorizationError"
ResourceNotFoundError == "ResourceNotFoundError"
ResourceConflictError == "ResourceConflictError"
BusinessLogicError == "BusinessLogicError"
\* sqlalchemy's error on a violated unique constraint (not a ServiceError)
IntegrityError == "IntegrityError"

(***************************************************************************)
(* Names are character sequences; str.strip() removes the blanks at both   *)
(* ends.                                                                   *)
(***************************************************************************)
RECURSIVE lstrip(_)
lstrip(s) == IF s # <<>> /\ Head(s) = " " THEN lstrip(Tail(s)) ELSE s

RECURSIVE rstrip(_)
rstrip(s) ==
    IF s # <<>> /\ s[Len(s)] = " " THEN rstrip(SubSeq(s, 1, Len(s) - 1)) ELSE s

strip(s) == rstrip(lstrip(s))

LongName == [i \in 1..(MaxNameLength + 1) |-> "x"]
\* the tenant names the requests of the membership specifications carry: one
\* name passes validation after strip(), so one tenant is created there and
\* every other tenant id names no tenant
TenantNames == {<<>>, <<" ">>, <<"a">>, <<"a", " ">>, LongName}
\* the names specifications about tenant names add
MoreTenantNames == TenantNames \cup {<<"b">>}

(***************************************************************************)
(* Repositories: the queries and writes of one store round-trip each.      *)
(***************************************************************************)
\* BaseRepository.get_by_id on tenants
TenantExists(T, t) == t \in 1..Len(T)

\* AccountRepository.get_by_id: the accounts table of the tenant
\* specifications holds the accounts 1..NumAccounts, all active
AccountExists(a) == a \in AccountIds

\* TenantRepository.get_by_name: the rows with that name (.first() is one of
\* them, None when there is none)
get_by_name(T, name) == {t \in 1..Len(T) : T[t].name = name}

\* the rows of tenant_account_joins for one (tenant, account) pair
JoinRows(J, t, a) == IF <<t, a>> \in DOMAIN J THEN J[<<t, a>>] ELSE <<>>

\* TenantRepository.get_member_role: the role of .first(), or None
get_member_role(J, t, a) ==
    IF JoinRows(J, t, a) = <<>> THEN None ELSE Head(JoinRows(J, t, a))

\* TenantRepository.is_member
is_member(J, t, a) == JoinRows(J, t, a) # <<>>

\* an INSERT that no constraint refuses
InsertUnconstrained(J, t, a) == TRUE

\* the INSERT of a join row under UniqueConstraint("tenant_id", "account_id"):
\* the commit is refused when the pair already has a row
InsertAllowed(J, t, a) == JoinRows(J, t, a) = <<>>

InsertJoin(J, t, a, role) == [J EXCEPT ![<<t, a>>] = Append(@, role)]

\* TenantRepository.add_member: returns None when a row exists, else inserts
repo_add_member(J, t, a, role) ==
    IF JoinRows(J, t, a) # <<>> THEN J
    ELSE IF InsertAllowed(J, t, a) THEN InsertJoin(J, t, a, role) ELSE J

\* TenantRepository.remove_member: deletes .first() when there is one
repo_remove_member(J, t, a) ==
    IF JoinRows(J, t, a) = <<>> THEN J ELSE [J EXCEPT ![<<t, a>>] = Tail(@)]

\* TenantRepository.update_member_role: sets the role of .first()
repo_update_member_role(J, t, a, role) ==
    IF JoinRows(J, t, a) = <<>> THEN J
    ELSE [J EXCEPT ![<<t, a>>] = <<role>> \o Tail(@)]

(***************************************************************************)
(* TenantService: each operator is one call run alone, from the store      *)
(* (T, C, J) to the exception raised (OK for a normal return) and the      *)
(* store it leaves.                                                        *)
(***************************************************************************)
Outcome(exc, T, C, J) == [exc |-> exc, tenants |-> T, created_by |-> C, joins |-> J]

\* remove_member without the rule that an admin removes no admin
remove_member_admin_removes_admin(T, C, J, tenant_id, account_id, operator_account_id) ==
    IF ~TenantExists(T, tenant_id)
    THEN Outcome(ResourceNotFoundError, T, C, J)
    ELSE LET operator_role == get_member_role(J, tenant_id, operator_account_id)
             member_role == get_member_role(J, tenant_id, account_id)
         IN
    IF operator_role = None \/ operator_role \notin {OWNER, ADMIN}
    THEN Outcome(AuthorizationError, T, C, J)
    ELSE IF member_role = None
    THEN Outcome(ResourceNotFoundError, T, C, J)
    ELSE IF member_role = OWNER
    THEN Outcome(BusinessLogicError, T, C, J)
    ELSE Outcome(OK, T, C, repo_remove_member(J, tenant_id, account_id))

\* update_member_role open to admins as well as to the owner
update_member_role_by_admin(T, C, J, tenant_id, account_id, new_role, operator_account_id) ==
    IF ~TenantExists(T, tenant_id)
    THEN Outcome(ResourceNotFoundError, T, C, J)
    ELSE LET operator_role == get_member_role(J, tenant_id, operator_account_id)
             member_role == get_member_role(J, tenant_id, account_id)
         IN
    IF operator_role \notin {OWNER, ADMIN}
    THEN Outcome(AuthorizationError, T, C, J)
    ELSE IF member_role = None
    THEN Outcome(ResourceNotFoundError, T, C, J)
    ELSE IF member_role = OWNER
    THEN Outcome(BusinessLogicError, T, C, J)
    ELSE IF new_role = OWNER
    THEN Outcome(BusinessLogicError, T, C, J)
    ELSE Outcome(OK, T, C, repo_update_member_role(J, tenant_id, account_id, new_role))

\* add_member without the is_member check: the repository's own query then
\* returns None for a pair that has a row, and the call returns normally
add_member_unchecked_duplicate(T, C, J, tenant_id, account_id, role, operator_account_id) ==
    IF ~TenantExists(T, tenant_id)
    THEN Outcome(ResourceNotFoundError, T, C, J)
    ELSE IF ~AccountExists(account_id)
    THEN Outcome(ResourceNotFoundError, T, C, J)
    ELSE LET operator_role == get_member_role(J, tenant_id, operator_account_id) IN
    IF operator_role = None \/ operator_role \notin {OWNER, ADMIN}
    THEN Outcome(AuthorizationError, T, C, J)
    ELSE Outcome(OK, T, C, repo_add_member(J, tenant_id, account_id, role))

TenantService_create_tenant(T, C, J, name, owner_account_id) ==
    IF name = <<>> \/ Len(strip(name)) = 0
    THEN Outcome(ValidationError, T, C, J)
    ELSE IF Len(strip(name)) > MaxNameLength
    THEN Outcome(ValidationError, T, C, J)
    ELSE IF ~AccountExists(owner_account_id)
    THEN Outcome(ResourceNotFoundError, T, C, J)
    ELSE IF get_by_name(T, strip(name)) # {}
    THEN Outcome(ResourceConflictError, T, C, J)
    ELSE LET id == Len(T) + 1
             T2 == Append(T, [name |-> strip(name)])
         IN  Outcome(OK, T2, Append(C, owner_account_id),
                     repo_add_member(J, id, owner_account_id, OWNER))

TenantService_add_member(T, C, J, tenant_id, account_id, role, operator_account_id) ==
    IF ~TenantExists(T, tenant_id)
    THEN Outcome(ResourceNotFoundError, T, C, J)
    ELSE IF ~AccountExists(account_id)
    THEN Outcome(ResourceNotFoundError, T, C, J)
    ELSE LET operator_role == get_member_role(J, tenant_id, operator_account_id) IN
    IF operator_role = None \/ operator_role \notin {OWNER, ADMIN}
    THEN Outcome(AuthorizationError, T, C, J)
    ELSE IF is_member(J, tenant_id, account_id)
    THEN Outcome(ResourceConflictError, T, C, J)
    ELSE Outcome(OK, T, C, repo_add_member(J, tenant_id, account_id, role))

TenantService_remove_member(T, C, J, tenant_id, account_id, operator_account_id) ==
    IF ~TenantExists(T, tenant_id)
    THEN Outcome(ResourceNotFoundError, T, C, J)
    ELSE LET operator_role == get_member_role(J, tenant_id, operator_account_id)
             member_role == get_member_role(J, tenant_id, account_id)
         IN
    IF operator_role = None \/ operator_role \notin {OWNER, ADMIN}
    THEN Outcome(AuthorizationError, T, C, J)
    ELSE IF member_role = None
    THEN Outcome(ResourceNotFoundError, T, C, J)
    ELSE IF member_role = OWNER
    THEN Outcome(BusinessLogicError, T, C, J)
    ELSE IF operator_role = ADMIN /\ member_role = ADMIN
    THEN Outcome(AuthorizationError, T, C, J)
    ELSE Outcome(OK, T, C, repo_remove_member(J, tenant_id, account_id))

TenantService_update_member_role(T, C, J, tenant_id, account_id, new_role, operator_account_id) ==
    IF ~TenantExists(T, tenant_id)
    THEN Outcome(ResourceNotFoundError, T, C, J)
    ELSE LET operator_role == get_member_role(J, tenant_id, operator_account_id)
             member_role == get_member_role(J, tenant_id, account_id)
         IN
    IF operator_role # OWNER
    THEN Outcome(AuthorizationError, T, C, J)
    ELSE IF member_role = None
    THEN Outcome(ResourceNotFoundError, T, C, J)
    ELSE IF member_role = OWNER
    THEN Outcome(BusinessLogicError, T, C, J)
    ELSE IF new_role = OWNER
    THEN Outcome(BusinessLogicError, T, C, J)
    ELSE Outcome(OK, T, C, repo_update_member_role(J, tenant_id, account_id, new_role))

\* TenantService.update_tenant with updates = {name: ...}; BaseRepository.update
\* sets the attribute as given
TenantService_update_tenant(T, C, J, tenant_id, operator_account_id, name) ==
    IF ~TenantExists(T, tenant_id)
    THEN Outcome(ResourceNotFoundError, T, C, J)
    ELSE IF get_member_role(J, tenant_id, operator_account_id) # OWNER
    THEN Outcome(AuthorizationError, T, C, J)
    ELSE Outcome(OK, [T EXCEPT ![tenant_id].name = name], C, J)

(***************************************************************************)
(* State                                                                   *)
(***************************************************************************)
VARIABLES
    tenants,                \* table tenants: tenant id -> row, ids 1..Len
    created_by,             \* per tenant, the owner_account_id of the create_tenant call that made it
    tenant_account_joins,   \* table tenant_account_joins: (tenant, account) -> its rows' roles
    last,                   \* the call that completed last: its arguments and the exception it raised
    response,               \* the status of the HTTP response sent last
    accounts,               \* table accounts: account id -> row, ids 1..Len
    model_providers,        \* table model_providers: provider id -> row, ids 1..Len
    apps,                   \* table apps: app id -> row, ids 1..Len
    tokens,                 \* the tokens login has handed out
    utcnow,                 \* datetime.utcnow(), in hours
    llm_providers,          \* ModelProviderFactory._llm_providers: type -> adapter instance
    embedding_providers,    \* ModelProviderFactory._embedding_providers: type -> adapter instance
    constructed,            \* the adapter instances constructed so far
    stream,                 \* a stream_invoke generator: the lines of its response, where it stands
    calls                   \* per concurrent request: where its service call stands, and its locals

tenantVars == <<tenants, created_by, tenant_account_joins>>
\* the adapter factory's caches and a running stream_invoke
runtimeVars == <<llm_providers, embedding_providers, constructed, stream>>
\* what only token handling and the adapter layer touch
sessionVars == <<tokens, utcnow, runtimeVars>>
\* what the tenant service and its endpoints never touch
nonTenantVars == <<accounts, model_providers, apps, sessionVars, calls>>
vars == <<tenants, created_by, tenant_account_joins, last, response, accounts, model_providers,
          apps, tokens, utcnow, llm_providers, embedding_providers, constructed, stream, calls>>

NoResponse == "none"

\* the requests that run concurrently
Procs == {"p1", "p2"}
Idle == [pc |-> "idle", op |-> None, name |-> <<>>, tenant |-> 0, account |-> 0,
         operator |-> 0, role |-> None, operator_role |-> None]
NoCall == [op |-> "init", tenant |-> 0, account |-> 0, operator |-> 0,
           role |-> None, exc |-> OK]

\* no stream_invoke is running
NoStream == [lines |-> <<>>, pos |-> 0, chunks |-> <<>>, state |-> "none"]

\* no token handed out, the clock at its origin, both adapter caches empty
InitSession ==
    /\ tokens = {}
    /\ utcnow = 0
    /\ llm_providers = <<>>
    /\ embedding_providers = <<>>
    /\ constructed = 0
    /\ stream = NoStream

InitTenants ==
    /\ tenants = <<>>
    /\ created_by = <<>>
    /\ tenant_account_joins = [p \in TenantIds \X AccountIds |-> <<>>]

ACTIVE == "active"
INACTIVE == "inactive"
BANNED == "banned"
AccountStatus == {ACTIVE, INACTIVE, BANNED}

\* the shortest password _validate_password takes
MinPasswordLength == 6
\* the shortest top-level domain _validate_email takes
MinTldLength == 2

\* werkzeug's generate_password_hash and check_password_hash: the hash is
\* not the password, and a password checks against its own hash only
generate_password_hash(password) == <<"hash", password>>
check_password_hash(password_hash, password) ==
    password_hash = generate_password_hash(password)

\* an email address is local@domain.tld, each part a string of characters
Email(local, domain, tld) == [local |-> local, domain |-> domain, tld |-> tld]
\* AuthService._validate_email: ^[...]+@[...]+\.[a-zA-Z]{2,}$ on addresses
\* whose characters are of the classes the pattern allows
AuthService_validate_email(email) ==
    Len(email.local) >= 1 /\ Len(email.domain) >= 1 /\ Len(email.tld) >= MinTldLength
\* AuthService._validate_password
AuthService_validate_password(password) == Len(password) >= MinPasswordLength

Password1 == <<"s", "e", "c", "r", "e", "t">>
Password2 == <<"h", "u", "n", "t", "e", "r">>
ShortPassword == <<"p", "w">>
Passwords == {Password1, Password2, ShortPassword}
Emails == {Email(<<"a">>, <<"x">>, <<"i", "o">>), Email(<<"b">>, <<"x">>, <<"i", "o">>),
           Email(<<"a">>, <<"x">>, <<"i">>)}
AccountNames == {<<>>, <<" ">>, <<"n", " ">>}

\* a row of accounts as register makes it
AccountRow(email, password, name) ==
    [email |-> email, password_hash |-> generate_password_hash(password),
     name |-> strip(name), status |-> ACTIVE, last_login_at |-> None]

\* the accounts the tenant operations are called with: registered, active
RegisteredAccounts ==
    [a \in AccountIds |->
        AccountRow(Email([i \in 1..a |-> "u"], <<"x">>, <<"i", "o">>), Password1, <<"n">>)]

Init ==
    /\ InitTenants
    /\ last = NoCall
    /\ response = NoResponse
    /\ accounts = RegisteredAccounts
    /\ model_providers = <<>>
    /\ apps = <<>>
    /\ InitSession
    /\ calls = [p \in Procs |-> Idle]

Commit(out) ==
    /\ tenants' = out.tenants
    /\ created_by' = out.created_by
    /\ tenant_account_joins' = out.joins

(***************************************************************************)
(* Service calls, one at a time                                            *)
(***************************************************************************)
create_tenant(name, owner_account_id) ==
    /\ Len(tenants) < MaxTenants
    /\ LET out == TenantService_create_tenant(tenants, created_by, tenant_account_joins,
                                              name, owner_account_id)
       IN  /\ Commit(out)
           /\ last' = [op |-> "create_tenant", tenant |-> Len(out.tenants),
                       account |-> owner_account_id, operator |-> owner_account_id,
                       role |-> OWNER, exc |-> out.exc]
    /\ UNCHANGED <<response, nonTenantVars>>

add_member(tenant_id, account_id, role, operator_account_id) ==
    /\ LET out == TenantService_add_member(tenants, created_by, tenant_account_joins,
                                           tenant_id, account_id, role, operator_account_id)
       IN  /\ Commit(out)
           /\ last' = [op |-> "add_member", tenant |-> tenant_id, account |-> account_id,
                       operator |-> operator_account_id, role |-> role, exc |-> out.exc]
    /\ UNCHANGED <<response, nonTenantVars>>

remove_member(tenant_id, account_id, operator_account_id) ==
    /\ LET out == TenantService_remove_member(tenants, created_by, tenant_account_joins,
                                              tenant_id, account_id, operator_account_id)
       IN  /\ Commit(out)
           /\ last' = [op |-> "remove_member", tenant |-> tenant_id, account |-> account_id,
                       operator |-> operator_account_id, role |-> None, exc |-> out.exc]
    /\ UNCHANGED <<response, nonTenantVars>>

update_member_role(tenant_id, account_id, new_role, operator_account_id) ==
    /\ LET out == TenantService_update_member_role(tenants, created_by, tenant_account_joins,
                                                   tenant_id, account_id, new_role,
                                                   operator_account_id)
       IN  /\ Commit(out)
           /\ last' = [op |-> "update_member_role", tenant |-> tenant_id,
                       account |-> account_id, operator |-> operator_account_id,
                       role |-> new_role, exc |-> out.exc]
    /\ UNCHANGED <<response, nonTenantVars>>

AnyAccount == AccountIds \cup {MissingAccount}
\* the ids of the tenants there are, and one id that names no tenant
AnyTenant == {t \in TenantIds : t <= Len(tenants) + 1}
\* A call on a tenant id that names no tenant fails before it reads its other
\* arguments: one choice of them stands for all.
TargetsOf(t) == IF TenantExists(tenants, t) THEN AnyAccount ELSE {1}
MembersOf(t) == IF TenantExists(tenants, t) THEN AccountIds ELSE {1}
RolesOf(t) == IF TenantExists(tenants, t) THEN TenantRole ELSE {MEMBER}

Next ==
    \/ \E name \in TenantNames, a \in AnyAccount : create_tenant(name, a)
    \/ \E t \in AnyTenant :
         \E a \in TargetsOf(t), r \in RolesOf(t), o \in MembersOf(t) :
           add_member(t, a, r, o)
    \/ \E t \in AnyTenant :
         \E a \in MembersOf(t), o \in MembersOf(t) : remove_member(t, a, o)
    \/ \E t \in AnyTenant :
         \E a \in MembersOf(t), r \in RolesOf(t), o \in MembersOf(t) :
           update_member_role(t, a, r, o)

\* The tenant service, its calls run one at a time.
Spec == Init /\ [][Next]_vars

(***************************************************************************)
(* Tenant names: create_tenant and update_tenant, one call at a time       *)
(***************************************************************************)
update_tenant(tenant_id, operator_account_id, name) ==
    /\ LET out == TenantService_update_tenant(tenants, created_by, tenant_account_joins,
                                              tenant_id, operator_account_id, name)
       IN  /\ Commit(out)
           /\ last' = [op |-> "update_tenant", tenant |-> tenant_id, account |-> 0,
                       operator |-> operator_account_id, role |-> None, exc |-> out.exc]
    /\ UNCHANGED <<response, nonTenantVars>>

\* the names update_tenant is called with
UpdateNames == {<<"a">>, <<"b">>, <<"a", " ">>}

NextNames ==
    \/ \E name \in MoreTenantNames, a \in AnyAccount : create_tenant(name, a)
    \/ \E t \in AnyTenant : \E o \in MembersOf(t), name \in UpdateNames :
         update_tenant(t, o, name)

SpecNames == Init /\ [][NextNames]_vars

(***************************************************************************)
(* AuthService and the account repository, one call at a time              *)
(***************************************************************************)
\* AccountRepository.get_by_email: the rows with that email (.first() is one
\* of them, None when there is none)
get_by_email(A, email) == {a \in 1..Len(A) : A[a].email = email}
\* AccountRepository.email_exists
email_exists(A, email) == get_by_email(A, email) # {}

InvalidCredentials == "Invalid email or password"
AccountBanned == "Account has been banned"
AccountInactive == "Account is inactive"

\* what a call of AuthService leaves: the exception and its message, and the table
AuthOutcome(exc, message, A) == [exc |-> exc, message |-> message, accounts |-> A]

AuthService_register(A, email, password, name) ==
    IF ~AuthService_validate_email(email)
    THEN AuthOutcome(ValidationError, "Invalid email format", A)
    ELSE IF ~AuthService_validate_password(password)
    THEN AuthOutcome(ValidationError, "Password must be at least 6 characters", A)
    ELSE IF name = <<>> \/ Len(strip(name)) = 0
    THEN AuthOutcome(ValidationError, "Name is required", A)
    ELSE IF email_exists(A, email)
    THEN AuthOutcome(ResourceConflictError, "Email already exists", A)
    ELSE AuthOutcome(OK, "", Append(A, AccountRow(email, password, name)))

\* AuthService.__init__: the hours a token lives, and the key it is signed with
token_expiry_hours == 24
SecretKey == "change-me-in-production"
OtherKey == "someone-else"

\* str(account.id) and UUID(account_id): the text of an id, and the id a text
\* denotes; UUID raises ValueError on a text that is not the text of an id
uuid_str(id) == <<"uuid", id>>
IsUuidStr(account_id) == Len(account_id) = 2 /\ account_id[1] = "uuid"
UUID(account_id) == account_id[2]
\* claims no _generate_token call writes: none, and "123"
NoAccountId == <<>>
NotAUuid == <<"1", "2", "3">>

\* jwt.encode: the claims, signed with a key
jwt_encode(payload, key) == [payload |-> payload, key |-> key]
\* a string that is not three base64 segments
MalformedToken == [payload |-> <<>>, key |-> None]
DecodeError == "DecodeError"
InvalidSignatureError == "InvalidSignatureError"
ExpiredSignatureError == "ExpiredSignatureError"
\* the exceptions that derive from jwt.InvalidTokenError
InvalidTokenErrors == {DecodeError, InvalidSignatureError, ExpiredSignatureError}
\* jwt.decode with verify_exp off
jwt_decode_unexpiring(token, key, now, expired_at_exp) ==
    IF token = MalformedToken THEN [exc |-> DecodeError, payload |-> <<>>]
    ELSE IF token.key # key THEN [exc |-> InvalidSignatureError, payload |-> <<>>]
    ELSE [exc |-> OK, payload |-> token.payload]

\* jwt.decode: the structure, then the signature, then exp against the clock;
\* a token verified at the very second of its exp is refused by the releases
\* of the library that compare with <= and taken by those that compare with <
jwt_decode(token, key, now, expired_at_exp) ==
    IF token = MalformedToken THEN [exc |-> DecodeError, payload |-> <<>>]
    ELSE IF token.key # key THEN [exc |-> InvalidSignatureError, payload |-> <<>>]
    ELSE IF token.payload.exp < now \/ (token.payload.exp = now /\ expired_at_exp)
    THEN [exc |-> ExpiredSignatureError, payload |-> <<>>]
    ELSE [exc |-> OK, payload |-> token.payload]

\* AuthService._generate_token
AuthService_generate_token(account_id, email, now) ==
    jwt_encode([account_id |-> uuid_str(account_id), email |-> email,
                exp |-> now + token_expiry_hours, iat |-> now], SecretKey)

\* a row BaseRepository.delete has removed
NoEmail == [local |-> <<>>, domain |-> <<>>, tld |-> <<>>]
DeletedAccount ==
    [email |-> NoEmail, password_hash |-> <<>>, name |-> <<>>, status |-> "deleted",
     last_login_at |-> None]
\* BaseRepository.get_by_id on accounts: is there a row with that id
get_by_id(A, id) == id \in 1..Len(A) /\ A[id] # DeletedAccount

NoToken == [payload |-> <<>>, key |-> "none"]
\* what login leaves: the exception and its message, the table, the token
LoginOutcome(exc, message, A, token) ==
    [exc |-> exc, message |-> message, accounts |-> A, token |-> token]

AuthService_login(A, now, email, password) ==
    IF get_by_email(A, email) = {}
    THEN LoginOutcome(AuthenticationError, InvalidCredentials, A, NoToken)
    ELSE LET id == CHOOSE a \in get_by_email(A, email) : TRUE
             account == A[id]
         IN
    IF account.status = BANNED
    THEN LoginOutcome(AuthenticationError, AccountBanned, A, NoToken)
    ELSE IF account.status = INACTIVE
    THEN LoginOutcome(AuthenticationError, AccountInactive, A, NoToken)
    ELSE IF ~check_password_hash(account.password_hash, password)
    THEN LoginOutcome(AuthenticationError, InvalidCredentials, A, NoToken)
    ELSE LoginOutcome(OK, "", [A EXCEPT ![id].last_login_at = "set"],
                      AuthService_generate_token(id, account.email, now))

AuthCall(op, email, password, out) ==
    [op |-> op, email |-> email, password |-> password, exc |-> out.exc,
     message |-> out.message]

register(email, password, name) ==
    /\ LET out == AuthService_register(accounts, email, password, name)
       IN  /\ accounts' = out.accounts
           /\ last' = AuthCall("register", email, password, out)
    /\ UNCHANGED <<tenantVars, response, model_providers, apps, sessionVars, calls>>

\* the tokens the model keeps track of
MaxTokens == 2

login(email, password) ==
    /\ LET out == AuthService_login(accounts, utcnow, email, password)
       IN  /\ out.exc = OK => (out.token \in tokens \/ Cardinality(tokens) < MaxTokens)
           /\ accounts' = out.accounts
           /\ tokens' = IF out.exc = OK THEN tokens \cup {out.token} ELSE tokens
           /\ last' = [op |-> "login", email |-> email, password |-> password,
                       exc |-> out.exc, message |-> out.message, token |-> out.token]
    /\ UNCHANGED <<tenantVars, response, model_providers, apps, utcnow, runtimeVars, calls>>

\* AccountRepository.update_status, which ban_account and activate_account call
update_status(id, status) ==
    /\ id \in 1..Len(accounts)
    /\ accounts' = [accounts EXCEPT ![id].status = status]
    /\ last' = [op |-> "update_status", email |-> accounts[id].email, password |-> <<>>,
                exc |-> OK, message |-> ""]
    /\ UNCHANGED <<tenantVars, response, model_providers, apps, sessionVars, calls>>

ban_account(id) == update_status(id, BANNED)
activate_account(id) == update_status(id, ACTIVE)

InitAuth ==
    /\ InitTenants
    /\ last = NoCall
    /\ response = NoResponse
    /\ accounts = <<>>
    /\ model_providers = <<>>
    /\ apps = <<>>
    /\ InitSession
    /\ calls = [p \in Procs |-> Idle]

NextAuth ==
    \/ \E email \in Emails, password \in Passwords, name \in AccountNames :
         register(email, password, name)
    \/ \E email \in Emails, password \in Passwords : login(email, password)
    \/ \E id \in 1..Len(accounts) : ban_account(id)
    \/ \E id \in 1..Len(accounts) : activate_account(id)
    \/ \E id \in 1..Len(accounts) : update_status(id, INACTIVE)

SpecAuth == InitAuth /\ [][NextAuth]_vars

(***************************************************************************)
(* Tokens and passwords: verify_token, change_password, the clock          *)
(***************************************************************************)
ValueError == "ValueError"

\* what verify_token leaves: the exception and its message, the id of the
\* account it returns (0 when it raises)
VerifyOutcome(exc, message, account) == [exc |-> exc, message |-> message, account |-> account]

AuthService_verify_token(A, token, now, expired_at_exp) ==
    LET dec == jwt_decode(token, SecretKey, now, expired_at_exp)
        account_id == dec.payload.account_id
    IN
    IF dec.exc = ExpiredSignatureError
    THEN VerifyOutcome(AuthenticationError, "Token has expired", 0)
    ELSE IF dec.exc \in InvalidTokenErrors
    THEN VerifyOutcome(AuthenticationError, "Invalid token", 0)
    ELSE IF account_id = NoAccountId
    THEN VerifyOutcome(AuthenticationError, "Invalid token", 0)
    ELSE IF ~IsUuidStr(account_id)
    THEN VerifyOutcome(ValueError, "badly formed hexadecimal UUID string", 0)
    ELSE IF ~get_by_id(A, UUID(account_id))
    THEN VerifyOutcome(AuthenticationError, "Account not found", 0)
    ELSE IF A[UUID(account_id)].status # ACTIVE
    THEN VerifyOutcome(AuthenticationError, "Account is not active", 0)
    ELSE VerifyOutcome(OK, "", UUID(account_id))

\* change_password without the check of the old password
change_password_unauthenticated(A, account_id, old_password, new_password) ==
    IF ~get_by_id(A, account_id)
    THEN AuthOutcome(ResourceNotFoundError, "Account not found", A)
    ELSE IF ~AuthService_validate_password(new_password)
    THEN AuthOutcome(ValidationError, "New password must be at least 6 characters", A)
    ELSE AuthOutcome(OK, "",
             [A EXCEPT ![account_id].password_hash = generate_password_hash(new_password)])

AuthService_change_password(A, account_id, old_password, new_password) ==
    IF ~get_by_id(A, account_id)
    THEN AuthOutcome(ResourceNotFoundError, "Account not found", A)
    ELSE IF ~check_password_hash(A[account_id].password_hash, old_password)
    THEN AuthOutcome(AuthenticationError, "Old password is incorrect", A)
    ELSE IF ~AuthService_validate_password(new_password)
    THEN AuthOutcome(ValidationError, "New password must be at least 6 characters", A)
    ELSE AuthOutcome(OK, "",
             [A EXCEPT ![account_id].password_hash = generate_password_hash(new_password)])

verify_token(token, expired_at_exp) ==
    /\ LET out == AuthService_verify_token(accounts, token, utcnow, expired_at_exp)
       IN  last' = [op |-> "verify_token", token |-> token, exc |-> out.exc,
                    message |-> out.message, account |-> out.account]
    /\ UNCHANGED <<tenantVars, response, accounts, model_providers, apps, sessionVars, calls>>

change_password(account_id, old_password, new_password) ==
    /\ LET out == AuthService_change_password(accounts, account_id, old_password, new_password)
       IN  /\ accounts' = out.accounts
           /\ last' = [op |-> "change_password", account |-> account_id,
                       old_password |-> old_password, new_password |-> new_password,
                       exc |-> out.exc]
    /\ UNCHANGED <<tenantVars, response, model_providers, apps, sessionVars, calls>>

\* BaseRepository.delete on accounts
delete_account(id) ==
    /\ get_by_id(accounts, id)
    /\ accounts' = [accounts EXCEPT ![id] = DeletedAccount]
    /\ last' = [op |-> "delete_account", account |-> id, exc |-> OK]
    /\ UNCHANGED <<tenantVars, response, model_providers, apps, sessionVars, calls>>

\* the hours the clock moves at a time, and where the model stops it
ClockStep == 24
MaxClock == 48
\* time passes between two calls
tick ==
    /\ utcnow < MaxClock
    /\ utcnow' = utcnow + ClockStep
    /\ last' = [op |-> "tick", exc |-> OK]
    /\ UNCHANGED <<tenantVars, response, accounts, model_providers, apps, tokens,
                   runtimeVars, calls>>

\* the accounts that log in and change in the token specification
TokenAccounts == 1..2
\* the tokens a caller can make without login: signed with either key, exp
\* before or after the clock, the account_id claim an id, absent or "123"
ForgedTokens ==
    {jwt_encode([account_id |-> a, email |-> NoEmail, exp |-> e, iat |-> 0], k) :
        a \in {uuid_str(1), uuid_str(NumAccounts + 1), NoAccountId, NotAUuid},
        e \in {utcnow - 1, utcnow + 1}, k \in {SecretKey, OtherKey}}
    \cup {MalformedToken}

InitToken ==
    /\ InitTenants
    /\ last = NoCall
    /\ response = NoResponse
    /\ accounts = RegisteredAccounts
    /\ model_providers = <<>>
    /\ apps = <<>>
    /\ InitSession
    /\ calls = [p \in Procs |-> Idle]

NextToken ==
    \/ \E a \in TokenAccounts, password \in Passwords :
         login(RegisteredAccounts[a].email, password)
    \/ \E token \in tokens \cup ForgedTokens, expired_at_exp \in BOOLEAN :
         verify_token(token, expired_at_exp)
    \/ \E a \in TokenAccounts : get_by_id(accounts, a) /\ ban_account(a)
    \/ \E a \in TokenAccounts : get_by_id(accounts, a) /\ activate_account(a)
    \/ \E a \in TokenAccounts : get_by_id(accounts, a) /\ update_status(a, INACTIVE)
    \/ \E a \in TokenAccounts : delete_account(a)
    \/ tick

SpecToken == InitToken /\ [][NextToken]_vars

\* logins, password changes, status changes and deletions of accounts
NextPassword ==
    \/ \E a \in TokenAccounts, password \in Passwords :
         login(RegisteredAccounts[a].email, password)
    \/ \E a \in TokenAccounts \cup {MissingAccount}, old \in Passwords, new \in Passwords :
         change_password(a, old, new)
    \/ \E a \in TokenAccounts : get_by_id(accounts, a) /\ ban_account(a)
    \/ \E a \in TokenAccounts : get_by_id(accounts, a) /\ activate_account(a)
    \/ \E a \in TokenAccounts : get_by_id(accounts, a) /\ update_status(a, INACTIVE)
    \/ \E a \in TokenAccounts : delete_account(a)

SpecPassword == InitToken /\ [][NextPassword]_vars

(***************************************************************************)
(* ModelProviderService and its repository, one call at a time             *)
(***************************************************************************)
OPENAI == "openai"
TEI == "tei"
ProviderType == {OPENAI, TEI}

\* credentials dicts: the empty dict, one the provider's adapter accepts and
\* one it refuses (validate_credentials raises)
NoCredentials == "{}"
GoodCredentials == "good"
BadCredentials == "bad"
Credentials == {NoCredentials, GoodCredentials, BadCredentials}
\* ModelProviderService._validate_credentials: TRUE when the adapter raises nothing
ModelProviderService_validate_credentials(provider_type, credentials) ==
    credentials = GoodCredentials
\* ModelProvider.encrypt_credentials and decrypt_credentials: json.dumps, json.loads
encrypt_credentials(credentials) == <<"json", credentials>>
decrypt_credentials(encrypted_credentials) == encrypted_credentials[2]

ProviderNames == {<<>>, <<" ">>, <<"x">>, <<"y">>, LongName}

\* a row of model_providers; a deleted row keeps its id and is no row any more
ProviderRows(P) == {p \in 1..Len(P) : P[p].exists}
\* the query without its filter on is_active
get_by_tenant_and_name(P, tenant_id, name) ==
    {p \in ProviderRows(P) : P[p].tenant_id = tenant_id /\ P[p].name = name}
\* ModelProviderRepository.get_active_by_tenant_and_name
get_active_by_tenant_and_name(P, tenant_id, name) ==
    {p \in ProviderRows(P) : P[p].tenant_id = tenant_id /\ P[p].name = name /\ P[p].is_active}
\* ModelProviderRepository.get_by_tenant_and_id
get_by_tenant_and_id(P, tenant_id, provider_id) ==
    {p \in ProviderRows(P) : P[p].tenant_id = tenant_id /\ p = provider_id}

ProviderOutcome(exc, P) == [exc |-> exc, providers |-> P]

\* add_provider without the call of the adapter
add_provider_unvalidated(T, P, tenant_id, name, provider_type, credentials, creator) ==
    IF ~TenantExists(T, tenant_id)
    THEN ProviderOutcome(ResourceNotFoundError, P)
    ELSE IF name = <<>> \/ Len(strip(name)) = 0
    THEN ProviderOutcome(ValidationError, P)
    ELSE IF Len(name) > MaxNameLength
    THEN ProviderOutcome(ValidationError, P)
    ELSE IF get_active_by_tenant_and_name(P, tenant_id, name) # {}
    THEN ProviderOutcome(ResourceConflictError, P)
    ELSE IF credentials = NoCredentials
    THEN ProviderOutcome(ValidationError, P)
    ELSE ProviderOutcome(OK,
             Append(P, [exists |-> TRUE, tenant_id |-> tenant_id, name |-> name,
                        provider_type |-> provider_type,
                        encrypted_credentials |-> encrypt_credentials(credentials),
                        is_active |-> TRUE, created_by |-> creator]))

ModelProviderService_add_provider(T, P, tenant_id, name, provider_type, credentials, creator) ==
    IF ~TenantExists(T, tenant_id)
    THEN ProviderOutcome(ResourceNotFoundError, P)
    ELSE IF name = <<>> \/ Len(strip(name)) = 0
    THEN ProviderOutcome(ValidationError, P)
    ELSE IF Len(name) > MaxNameLength
    THEN ProviderOutcome(ValidationError, P)
    ELSE IF get_active_by_tenant_and_name(P, tenant_id, name) # {}
    THEN ProviderOutcome(ResourceConflictError, P)
    ELSE IF credentials = NoCredentials
    THEN ProviderOutcome(ValidationError, P)
    ELSE IF ~ModelProviderService_validate_credentials(provider_type, credentials)
    THEN ProviderOutcome(BusinessLogicError, P)
    ELSE ProviderOutcome(OK,
             Append(P, [exists |-> TRUE, tenant_id |-> tenant_id, name |-> name,
                        provider_type |-> provider_type,
                        encrypted_credentials |-> encrypt_credentials(credentials),
                        is_active |-> TRUE, created_by |-> creator]))

\* the name argument when no name is given
NoName == <<None>>

\* what an update_provider call leaves, with the queries it made on its way:
\* name_checked when it ran get_active_by_tenant_and_name, adapter_called when
\* it had the adapter validate the credentials
UpdateOutcome(exc, P, name_checked, adapter_called) ==
    [exc |-> exc, providers |-> P, name_checked |-> name_checked,
     adapter_called |-> adapter_called]

\* update_provider that writes the name before it validates the credentials
update_provider_name_first(P, tenant_id, provider_id, name, credentials) ==
    IF get_by_tenant_and_id(P, tenant_id, provider_id) = {}
    THEN UpdateOutcome(ResourceNotFoundError, P, FALSE, FALSE)
    ELSE LET provider == P[provider_id]
             differs == name # NoName /\ name # provider.name
         IN
    IF name # NoName /\ Len(strip(name)) = 0
    THEN UpdateOutcome(ValidationError, P, FALSE, FALSE)
    ELSE IF name # NoName /\ Len(name) > MaxNameLength
    THEN UpdateOutcome(ValidationError, P, FALSE, FALSE)
    ELSE IF differs /\ get_active_by_tenant_and_name(P, tenant_id, name) # {}
    THEN UpdateOutcome(ResourceConflictError, P, TRUE, FALSE)
    ELSE LET P1 == IF name # NoName THEN [P EXCEPT ![provider_id].name = name] ELSE P
         IN
    IF /\ credentials # None
       /\ ~ModelProviderService_validate_credentials(provider.provider_type, credentials)
    THEN UpdateOutcome(BusinessLogicError, P1, differs, TRUE)
    ELSE IF credentials # None
    THEN UpdateOutcome(OK, [P1 EXCEPT ![provider_id].encrypted_credentials =
                                         encrypt_credentials(credentials)], differs, TRUE)
    ELSE UpdateOutcome(OK, P1, differs, FALSE)

\* update_provider with name and credentials, each None when not given
ModelProviderService_update_provider(P, tenant_id, provider_id, name, credentials) ==
    IF get_by_tenant_and_id(P, tenant_id, provider_id) = {}
    THEN UpdateOutcome(ResourceNotFoundError, P, FALSE, FALSE)
    ELSE LET provider == P[provider_id]
             differs == name # NoName /\ name # provider.name
         IN
    IF name # NoName /\ Len(strip(name)) = 0
    THEN UpdateOutcome(ValidationError, P, FALSE, FALSE)
    ELSE IF name # NoName /\ Len(name) > MaxNameLength
    THEN UpdateOutcome(ValidationError, P, FALSE, FALSE)
    ELSE IF differs /\ get_active_by_tenant_and_name(P, tenant_id, name) # {}
    THEN UpdateOutcome(ResourceConflictError, P, TRUE, FALSE)
    ELSE IF /\ credentials # None
            /\ ~ModelProviderService_validate_credentials(provider.provider_type, credentials)
    THEN UpdateOutcome(BusinessLogicError, P, differs, TRUE)
    ELSE LET P1 == IF name # NoName THEN [P EXCEPT ![provider_id].name = name] ELSE P
             P2 == IF credentials # None
                   THEN [P1 EXCEPT ![provider_id].encrypted_credentials =
                                       encrypt_credentials(credentials)]
                   ELSE P1
         IN  UpdateOutcome(OK, P2, differs, credentials # None)

\* what is left at the id of a deleted row
DeletedProvider ==
    [exists |-> FALSE, tenant_id |-> 0, name |-> <<>>, provider_type |-> None,
     encrypted_credentials |-> <<>>, is_active |-> FALSE, created_by |-> None]

ModelProviderService_delete_provider(P, tenant_id, provider_id) ==
    IF get_by_tenant_and_id(P, tenant_id, provider_id) = {}
    THEN ProviderOutcome(ResourceNotFoundError, P)
    ELSE ProviderOutcome(OK, [P EXCEPT ![provider_id] = DeletedProvider])

\* activate_provider as a no-op on a provider that is active
activate_provider_idempotent(P, tenant_id, provider_id) ==
    IF get_by_tenant_and_id(P, tenant_id, provider_id) = {}
    THEN ProviderOutcome(ResourceNotFoundError, P)
    ELSE ProviderOutcome(OK, [P EXCEPT ![provider_id].is_active = TRUE])

ModelProviderService_activate_provider(P, tenant_id, provider_id) ==
    IF get_by_tenant_and_id(P, tenant_id, provider_id) = {}
    THEN ProviderOutcome(ResourceNotFoundError, P)
    ELSE IF P[provider_id].is_active
    THEN ProviderOutcome(BusinessLogicError, P)
    ELSE ProviderOutcome(OK, [P EXCEPT ![provider_id].is_active = TRUE])

ModelProviderService_deactivate_provider(P, tenant_id, provider_id) ==
    IF get_by_tenant_and_id(P, tenant_id, provider_id) = {}
    THEN ProviderOutcome(ResourceNotFoundError, P)
    ELSE IF ~P[provider_id].is_active
    THEN ProviderOutcome(BusinessLogicError, P)
    ELSE ProviderOutcome(OK, [P EXCEPT ![provider_id].is_active = FALSE])

\* the message of the BusinessLogicError a call raises
BusinessLogicMessage(op) ==
    IF op \in {"add_provider", "update_provider"} THEN "Invalid credentials: "
    ELSE IF op = "activate_provider" THEN "Provider is already active"
    ELSE "Provider is already inactive"

\* ModelProviderService.test_connection with the exception passed on
test_connection_raises(P, tenant_id, provider_id, reachable) ==
    IF get_by_tenant_and_id(P, tenant_id, provider_id) = {}
    THEN [exc |-> ResourceNotFoundError, providers |-> P, success |-> None]
    ELSE IF /\ reachable
            /\ ModelProviderService_validate_credentials(
                   P[provider_id].provider_type,
                   decrypt_credentials(P[provider_id].encrypted_credentials))
    THEN [exc |-> OK, providers |-> P, success |-> TRUE]
    ELSE [exc |-> BusinessLogicError, providers |-> P, success |-> None]

\* test_connection: the adapter validates the stored credentials against the
\* provider's endpoint, and raises when they are refused or the endpoint is
\* not reachable
ModelProviderService_test_connection(P, tenant_id, provider_id, reachable) ==
    IF get_by_tenant_and_id(P, tenant_id, provider_id) = {}
    THEN [exc |-> ResourceNotFoundError, providers |-> P, success |-> None]
    ELSE IF /\ reachable
            /\ ModelProviderService_validate_credentials(
                   P[provider_id].provider_type,
                   decrypt_credentials(P[provider_id].encrypted_credentials))
    THEN [exc |-> OK, providers |-> P, success |-> TRUE]
    ELSE [exc |-> OK, providers |-> P, success |-> FALSE]

\* the call that completed: its arguments (name and credentials where it
\* takes them) and the exception with its message
ProviderCall(op, tenant_id, provider_id, name, credentials, out) ==
    /\ model_providers' = out.providers
    /\ last' = [op |-> op, tenant |-> tenant_id, provider |-> provider_id,
                name |-> name, credentials |-> credentials, exc |-> out.exc,
                message |-> IF out.exc = BusinessLogicError
                            THEN BusinessLogicMessage(op) ELSE ""]
    /\ UNCHANGED <<tenantVars, response, accounts, apps, sessionVars, calls>>

add_provider(tenant_id, name, provider_type, credentials) ==
    /\ Len(model_providers) < MaxProviders
    /\ LET out == ModelProviderService_add_provider(tenants, model_providers, tenant_id,
                                                    name, provider_type, credentials, None)
       IN  ProviderCall("add_provider", tenant_id, Len(out.providers), name, credentials, out)

update_provider(tenant_id, provider_id, name, credentials) ==
    /\ LET out == ModelProviderService_update_provider(model_providers, tenant_id,
                                                        provider_id, name, credentials)
       IN  /\ model_providers' = out.providers
           /\ last' = [op |-> "update_provider", tenant |-> tenant_id,
                       provider |-> provider_id, name |-> name,
                       credentials |-> credentials, exc |-> out.exc,
                       message |-> IF out.exc = BusinessLogicError
                                   THEN BusinessLogicMessage("update_provider") ELSE "",
                       name_checked |-> out.name_checked,
                       adapter_called |-> out.adapter_called]
    /\ UNCHANGED <<tenantVars, response, accounts, apps, sessionVars, calls>>

delete_provider(tenant_id, provider_id) ==
    ProviderCall("delete_provider", tenant_id, provider_id, NoName, None,
                 ModelProviderService_delete_provider(model_providers, tenant_id, provider_id))

activate_provider(tenant_id, provider_id) ==
    ProviderCall("activate_provider", tenant_id, provider_id, NoName, None,
                 ModelProviderService_activate_provider(model_providers, tenant_id,
                                                        provider_id))

deactivate_provider(tenant_id, provider_id) ==
    ProviderCall("deactivate_provider", tenant_id, provider_id, NoName, None,
                 ModelProviderService_deactivate_provider(model_providers, tenant_id,
                                                          provider_id))

\* a test_connection call, made while the provider's endpoint is reachable or
\* not; success is the flag of the dict it returns
test_connection(tenant_id, provider_id, reachable) ==
    /\ LET out == ModelProviderService_test_connection(model_providers, tenant_id,
                                                        provider_id, reachable)
       IN  /\ model_providers' = out.providers
           /\ last' = [op |-> "test_connection", tenant |-> tenant_id,
                       provider |-> provider_id, reachable |-> reachable,
                       exc |-> out.exc, success |-> out.success]
    /\ UNCHANGED <<tenantVars, response, accounts, apps, sessionVars, calls>>

\* two tenants, made by create_tenant calls of the accounts 1 and 2
InitProvider ==
    /\ tenants = [t \in TenantIds |-> [name |-> [i \in 1..t |-> "a"]]]
    /\ created_by = [t \in TenantIds |-> IF t \in AccountIds THEN t ELSE 1]
    /\ tenant_account_joins =
           [p \in TenantIds \X AccountIds |->
               IF p[2] = (IF p[1] \in AccountIds THEN p[1] ELSE 1) THEN <<OWNER>> ELSE <<>>]
    /\ last = NoCall
    /\ response = NoResponse
    /\ accounts = RegisteredAccounts
    /\ model_providers = <<>>
    /\ apps = <<>>
    /\ InitSession
    /\ calls = [p \in Procs |-> Idle]

\* the tenant ids and provider ids of the calls: those there are and one more
ProviderTenants == TenantIds \cup {MaxTenants + 1}
ProviderIds == 1..(Len(model_providers) + 1)
\* a call on a provider the tenant does not have fails before it reads its
\* other arguments: one choice of them stands for all
NamesFor(t, p) ==
    IF get_by_tenant_and_id(model_providers, t, p) = {}
    THEN {NoName} ELSE {NoName} \cup ProviderNames
CredentialsFor(t, p) ==
    IF get_by_tenant_and_id(model_providers, t, p) = {}
    THEN {None} ELSE {None} \cup Credentials

NextProvider ==
    \/ \E t \in ProviderTenants, name \in ProviderNames, c \in Credentials :
         add_provider(t, name, OPENAI, c)
    \/ \E t \in ProviderTenants, p \in ProviderIds :
         \E name \in NamesFor(t, p), c \in CredentialsFor(t, p) :
           update_provider(t, p, name, c)
    \/ \E t \in ProviderTenants, p \in ProviderIds : delete_provider(t, p)
    \/ \E t \in ProviderTenants, p \in ProviderIds : activate_provider(t, p)
    \/ \E t \in ProviderTenants, p \in ProviderIds : deactivate_provider(t, p)
    \/ \E t \in ProviderTenants, p \in ProviderIds, reachable \in BOOLEAN :
         test_connection(t, p, reachable)

SpecProvider == InitProvider /\ [][NextProvider]_vars

(***************************************************************************)
(* The members endpoints of controllers/console/tenant/tenant_bp.py.  A    *)
(* request is one action: jwt_required, the parsing of the path and the    *)
(* body, the service call, and the except clauses that choose the status.  *)
(***************************************************************************)
\* a path segment or body field that uuid.UUID() refuses
BadUuid == MissingAccount + 1
\* the caller of a request whose token jwt_required refuses
Anonymous == MissingAccount + 2
\* the service was not reached
NotCalled == "not called"

\* the role strings request bodies carry; TenantRole[role_str.upper()] raises
\* KeyError for a string that names no member of the enum
RoleStrings == {"member", "admin", "owner", "guest"}
ParseRole(role_str) == IF role_str \in TenantRole THEN role_str ELSE None

\* except clauses of create_tenant (POST "")
create_tenant_status(exc) ==
    CASE exc = OK -> 201
      [] exc = ValidationError -> 400
      [] exc = ResourceConflictError -> 409
      [] OTHER -> 500

\* except clauses of add_member (POST "/<tenant_id>/members")
add_member_status(exc) ==
    CASE exc = OK -> 201
      [] exc = ValidationError -> 400
      [] exc = ResourceConflictError -> 409
      [] exc = AuthorizationError -> 403
      [] exc = ResourceNotFoundError -> 404
      [] OTHER -> 500

\* except clauses of remove_member (DELETE "/<tenant_id>/members/<account_id>")
remove_member_status(exc) ==
    CASE exc = OK -> 200
      [] exc = ValidationError -> 400
      [] exc = AuthorizationError -> 403
      [] exc = ResourceNotFoundError -> 404
      [] OTHER -> 500

\* except clauses of update_member_role (PUT "/<tenant_id>/members/<account_id>/role")
update_member_role_status(exc) ==
    CASE exc = OK -> 200
      [] exc = ValidationError -> 400
      [] exc = AuthorizationError -> 403
      [] exc = ResourceNotFoundError -> 404
      [] OTHER -> 500

\* a request that ends before the service is called
Rejected(op, tenant_id, account_id, current, status) ==
    /\ last' = [op |-> op, tenant |-> tenant_id, account |-> account_id,
                operator |-> current, role |-> None, exc |-> NotCalled]
    /\ response' = status
    /\ UNCHANGED tenantVars

Served(op, tenant_id, account_id, current, role, out, status) ==
    /\ Commit(out)
    /\ last' = [op |-> op, tenant |-> tenant_id, account |-> account_id,
                operator |-> current, role |-> role, exc |-> out.exc]
    /\ response' = status

http_create_tenant(name, current) ==
    /\ Len(tenants) < MaxTenants
    /\ IF current = Anonymous
       THEN Rejected("POST tenants", 0, 0, current, 401)
       ELSE LET out == TenantService_create_tenant(tenants, created_by,
                           tenant_account_joins, name, current)
            IN  Served("POST tenants", Len(out.tenants), current, current, OWNER,
                       out, create_tenant_status(out.exc))
    /\ UNCHANGED nonTenantVars

http_add_member(tenant_id, account_id, role_str, current) ==
    /\ IF current = Anonymous
       THEN Rejected("POST members", tenant_id, account_id, current, 401)
       ELSE IF tenant_id = BadUuid \/ account_id = BadUuid
       THEN Rejected("POST members", tenant_id, account_id, current, 400)
       ELSE IF ParseRole(role_str) = None
       THEN Rejected("POST members", tenant_id, account_id, current, 400)
       ELSE LET out == TenantService_add_member(tenants, created_by,
                           tenant_account_joins, tenant_id, account_id,
                           ParseRole(role_str), current)
            IN  Served("POST members", tenant_id, account_id, current,
                       ParseRole(role_str), out, add_member_status(out.exc))
    /\ UNCHANGED nonTenantVars

http_remove_member(tenant_id, account_id, current) ==
    /\ IF current = Anonymous
       THEN Rejected("DELETE member", tenant_id, account_id, current, 401)
       ELSE IF tenant_id = BadUuid \/ account_id = BadUuid
       THEN Rejected("DELETE member", tenant_id, account_id, current, 400)
       ELSE LET out == TenantService_remove_member(tenants, created_by,
                           tenant_account_joins, tenant_id, account_id, current)
            IN  Served("DELETE member", tenant_id, account_id, current, None,
                       out, remove_member_status(out.exc))
    /\ UNCHANGED nonTenantVars

http_update_member_role(tenant_id, account_id, role_str, current) ==
    /\ IF current = Anonymous
       THEN Rejected("PUT role", tenant_id, account_id, current, 401)
       ELSE IF tenant_id = BadUuid \/ account_id = BadUuid
       THEN Rejected("PUT role", tenant_id, account_id, current, 400)
       ELSE IF ParseRole(role_str) = None
       THEN Rejected("PUT role", tenant_id, account_id, current, 400)
       ELSE LET out == TenantService_update_member_role(tenants, created_by,
                           tenant_account_joins, tenant_id, account_id,
                           ParseRole(role_str), current)
            IN  Served("PUT role", tenant_id, account_id, current,
                       ParseRole(role_str), out, update_member_role_status(out.exc))
    /\ UNCHANGED nonTenantVars

\* The requests enumerated: a refused token or a malformed id ends the request
\* before anything else is read, so one choice of the other fields stands for all.
Callers == AccountIds \cup {Anonymous}
HttpTenants(c) == IF c = Anonymous THEN {1} ELSE AnyTenant \cup {BadUuid}
HttpTargets(c, t) ==
    IF c = Anonymous \/ t = BadUuid THEN {1}
    ELSE IF TenantExists(tenants, t) THEN AnyAccount \cup {BadUuid} ELSE {1, BadUuid}
HttpRoles(c, t, a) ==
    IF c = Anonymous \/ t = BadUuid \/ a = BadUuid THEN {"member"}
    ELSE IF TenantExists(tenants, t) THEN RoleStrings ELSE {"member", "guest"}

NextHttp ==
    \/ \E name \in TenantNames, c \in Callers : http_create_tenant(name, c)
    \/ \E c \in Callers : \E t \in HttpTenants(c) : \E a \in HttpTargets(c, t) :
         \E r \in HttpRoles(c, t, a) : http_add_member(t, a, r, c)
    \/ \E c \in Callers : \E t \in HttpTenants(c) : \E a \in HttpTargets(c, t) :
         http_remove_member(t, a, c)
    \/ \E c \in Callers : \E t \in HttpTenants(c) : \E a \in HttpTargets(c, t) :
         \E r \in HttpRoles(c, t, a) : http_update_member_role(t, a, r, c)

\* The tenant endpoints, their requests served one at a time.
SpecHttp == Init /\ [][NextHttp]_vars

(***************************************************************************)
(* The model-provider endpoints                                            *)
(* (controllers/console/model_provider/model_provider_bp.py)               *)
(***************************************************************************)
AttributeError == "AttributeError"
\* flask.g as jwt_required leaves it when verify_token has returned an account
FlaskG(account) == [current_account |-> account]
\* reading an attribute of g raises AttributeError when nothing has set it
HasAttr(g, attr) == attr \in DOMAIN g

\* the provider_type strings request bodies carry; ProviderType[s.upper()]
\* raises KeyError for a string that names no member of the enum
ProviderTypeStrings == {"openai", "claude"}
ParseProviderType(provider_type_str) ==
    IF provider_type_str \in ProviderType THEN provider_type_str ELSE None

\* ModelProviderRepository.get_by_tenant_id
get_by_tenant_id(P, tenant_id, include_inactive) ==
    {p \in ProviderRows(P) : P[p].tenant_id = tenant_id /\ (include_inactive \/ P[p].is_active)}
\* ModelProvider.to_dict, the fields the model has
to_dict(row, include_credentials) ==
    [tenant_id |-> row.tenant_id, name |-> row.name, is_active |-> row.is_active,
     encrypted_credentials |-> IF include_credentials THEN row.encrypted_credentials ELSE None]
\* a response that carries nothing of a provider
NoBody == {}

\* except clauses of add_provider (POST "") and, but for 201, of update_provider
add_provider_status(exc) ==
    CASE exc = OK -> 201
      [] exc = ValidationError -> 400
      [] exc = ResourceNotFoundError -> 404
      [] exc = ResourceConflictError -> 409
      [] exc = BusinessLogicError -> 400
      [] OTHER -> 500
update_provider_status(exc) == IF exc = OK THEN 200 ELSE add_provider_status(exc)
\* except clauses of list_providers, get_provider, delete_provider,
\* test_provider_connection, activate_provider and deactivate_provider
provider_status(exc) ==
    CASE exc = OK -> 200
      [] exc = ResourceNotFoundError -> 404
      [] exc = BusinessLogicError -> 400
      [] OTHER -> 500

\* a request on the model-provider endpoints that has been answered
ProviderRequest(op, tenant_id, provider_id, current, args, exc, status, body, P) ==
    /\ model_providers' = P
    /\ last' = [op |-> op, tenant |-> tenant_id, provider |-> provider_id,
                operator |-> current, args |-> args, exc |-> exc, body |-> body]
    /\ response' = status
    /\ UNCHANGED <<tenantVars, accounts, apps, sessionVars, calls>>

http_add_provider(tenant_id, name, provider_type_str, credentials, current) ==
    LET op == "POST model-providers"
        args == [name |-> name, provider_type |-> provider_type_str, credentials |-> credentials]
        g == FlaskG(current)
        P == model_providers
    IN
    /\ Len(model_providers) < MaxProviders
    /\ IF current = Anonymous
       THEN ProviderRequest(op, tenant_id, 0, current, args, NotCalled, 401, NoBody, P)
       ELSE IF ~HasAttr(g, "account")
       THEN ProviderRequest(op, tenant_id, 0, current, args, AttributeError, 500, NoBody, P)
       ELSE IF tenant_id = BadUuid
       THEN ProviderRequest(op, tenant_id, 0, current, args, NotCalled, 400, NoBody, P)
       ELSE IF name = <<>> \/ ParseProviderType(provider_type_str) = None
                 \/ credentials = NoCredentials
       THEN ProviderRequest(op, tenant_id, 0, current, args, NotCalled, 400, NoBody, P)
       ELSE LET out == ModelProviderService_add_provider(tenants, P, tenant_id, name,
                           ParseProviderType(provider_type_str), credentials, g.account)
            IN  ProviderRequest(op, tenant_id, Len(out.providers), current, args, out.exc,
                    add_provider_status(out.exc),
                    IF out.exc = OK
                    THEN {to_dict(out.providers[Len(out.providers)], FALSE)} ELSE NoBody,
                    out.providers)

http_list_providers(tenant_id, include_inactive, current) ==
    LET op == "GET model-providers"
        args == [include_inactive |-> include_inactive]
        P == model_providers
    IN
    IF current = Anonymous
    THEN ProviderRequest(op, tenant_id, 0, current, args, NotCalled, 401, NoBody, P)
    ELSE IF tenant_id = BadUuid
    THEN ProviderRequest(op, tenant_id, 0, current, args, NotCalled, 400, NoBody, P)
    ELSE IF ~TenantExists(tenants, tenant_id)
    THEN ProviderRequest(op, tenant_id, 0, current, args, ResourceNotFoundError, 404, NoBody, P)
    ELSE ProviderRequest(op, tenant_id, 0, current, args, OK, 200,
             {to_dict(P[p], FALSE) : p \in get_by_tenant_id(P, tenant_id, include_inactive)}, P)

http_get_provider(tenant_id, provider_id, include_credentials, current) ==
    LET op == "GET model-provider"
        args == [include_credentials |-> include_credentials]
        P == model_providers
    IN
    IF current = Anonymous
    THEN ProviderRequest(op, tenant_id, provider_id, current, args, NotCalled, 401, NoBody, P)
    ELSE IF tenant_id = BadUuid
    THEN ProviderRequest(op, tenant_id, provider_id, current, args, NotCalled, 400, NoBody, P)
    ELSE IF get_by_tenant_and_id(P, tenant_id, provider_id) = {}
    THEN ProviderRequest(op, tenant_id, provider_id, current, args, ResourceNotFoundError,
                         404, NoBody, P)
    ELSE ProviderRequest(op, tenant_id, provider_id, current, args, OK, 200,
                         {to_dict(P[provider_id], include_credentials)}, P)

http_update_provider(tenant_id, provider_id, name, credentials, current) ==
    LET op == "PUT model-provider"
        args == [name |-> name, credentials |-> credentials]
        g == FlaskG(current)
        P == model_providers
    IN
    IF current = Anonymous
    THEN ProviderRequest(op, tenant_id, provider_id, current, args, NotCalled, 401, NoBody, P)
    ELSE IF ~HasAttr(g, "account")
    THEN ProviderRequest(op, tenant_id, provider_id, current, args, AttributeError, 500,
                         NoBody, P)
    ELSE IF tenant_id = BadUuid
    THEN ProviderRequest(op, tenant_id, provider_id, current, args, NotCalled, 400, NoBody, P)
    ELSE LET out == ModelProviderService_update_provider(P, tenant_id, provider_id, name,
                                                         credentials)
         IN  ProviderRequest(op, tenant_id, provider_id, current, args, out.exc,
                 update_provider_status(out.exc),
                 IF out.exc = OK THEN {to_dict(out.providers[provider_id], FALSE)} ELSE NoBody,
                 out.providers)

\* DELETE "/<provider_id>", POST "/<provider_id>/activate" and POST
\* "/<provider_id>/deactivate": the ids are parsed, the service is called and
\* its exception mapped
ProviderCommand(op, out, tenant_id, provider_id, current) ==
    LET P == model_providers
        args == <<>>
    IN
    IF current = Anonymous
    THEN ProviderRequest(op, tenant_id, provider_id, current, args, NotCalled, 401, NoBody, P)
    ELSE IF tenant_id = BadUuid
    THEN ProviderRequest(op, tenant_id, provider_id, current, args, NotCalled, 400, NoBody, P)
    ELSE ProviderRequest(op, tenant_id, provider_id, current, args, out.exc,
             provider_status(out.exc),
             IF out.exc = OK /\ out.providers[provider_id].exists
             THEN {to_dict(out.providers[provider_id], FALSE)} ELSE NoBody,
             out.providers)

http_delete_provider(tenant_id, provider_id, current) ==
    ProviderCommand("DELETE model-provider",
        ModelProviderService_delete_provider(model_providers, tenant_id, provider_id),
        tenant_id, provider_id, current)

http_activate_provider(tenant_id, provider_id, current) ==
    ProviderCommand("POST activate",
        ModelProviderService_activate_provider(model_providers, tenant_id, provider_id),
        tenant_id, provider_id, current)

http_deactivate_provider(tenant_id, provider_id, current) ==
    ProviderCommand("POST deactivate",
        ModelProviderService_deactivate_provider(model_providers, tenant_id, provider_id),
        tenant_id, provider_id, current)

http_test_provider_connection(tenant_id, provider_id, reachable, current) ==
    LET op == "POST test"
        args == [reachable |-> reachable]
        P == model_providers
        out == ModelProviderService_test_connection(P, tenant_id, provider_id, reachable)
    IN
    IF current = Anonymous
    THEN ProviderRequest(op, tenant_id, provider_id, current, args, NotCalled, 401, NoBody, P)
    ELSE IF tenant_id = BadUuid
    THEN ProviderRequest(op, tenant_id, provider_id, current, args, NotCalled, 400, NoBody, P)
    ELSE ProviderRequest(op, tenant_id, provider_id, current, args, out.exc,
             provider_status(out.exc),
             IF out.exc = OK THEN {[success |-> out.success]} ELSE NoBody, P)

\* the requests enumerated; a refused token ends the request before its
\* path is read
HttpProviderTenants(c) == IF c = Anonymous THEN {1} ELSE ProviderTenants \cup {BadUuid}
HttpProviderIds(c, t) == IF c = Anonymous \/ t = BadUuid THEN {1} ELSE ProviderIds
HttpProviderNames == {<<>>, <<"x">>}

NextProviderHttp ==
    \/ \E t \in TenantIds : add_provider(t, <<"x">>, OPENAI, GoodCredentials)
    \/ \E c \in Callers : \E t \in HttpProviderTenants(c) :
         \E name \in HttpProviderNames, ty \in ProviderTypeStrings :
           http_add_provider(t, name, ty, GoodCredentials, c)
    \/ \E c \in Callers : \E t \in HttpProviderTenants(c) : \E b \in BOOLEAN :
         http_list_providers(t, b, c)
    \/ \E c \in Callers : \E t \in HttpProviderTenants(c) : \E p \in HttpProviderIds(c, t) :
         \E b \in BOOLEAN : http_get_provider(t, p, b, c)
    \/ \E c \in Callers : \E t \in HttpProviderTenants(c) : \E p \in HttpProviderIds(c, t) :
         \E name \in {NoName, <<"y">>} : http_update_provider(t, p, name, None, c)
    \/ \E c \in Callers : \E t \in HttpProviderTenants(c) : \E p \in HttpProviderIds(c, t) :
         http_delete_provider(t, p, c)
    \/ \E c \in Callers : \E t \in HttpProviderTenants(c) : \E p \in HttpProviderIds(c, t) :
         http_activate_provider(t, p, c)
    \/ \E c \in Callers : \E t \in HttpProviderTenants(c) : \E p \in HttpProviderIds(c, t) :
         http_deactivate_provider(t, p, c)
    \/ \E c \in Callers : \E t \in HttpProviderTenants(c) : \E p \in HttpProviderIds(c, t) :
         \E b \in BOOLEAN : http_test_provider_connection(t, p, b, c)

\* The model-provider endpoints, their requests served one at a time, over
\* providers that ModelProviderService.add_provider has made.
SpecProviderHttp == InitProvider /\ [][NextProviderHttp]_vars

(***************************************************************************)
(* OpenAIProvider.stream_invoke: the loop over the lines of the response   *)
(* (core/model_runtime/providers/openai_provider.py)                       *)
(***************************************************************************)
JSONDecodeError == "JSONDecodeError"
KeyError == "KeyError"
IndexError == "IndexError"

\* A line of the stream is its "data: " prefix, there or not, and the text
\* after it; a text is one of the literals below or the text of a JSON
\* value, kept with the value json.loads makes of it.
Line(prefix, text, value) == [prefix |-> prefix, text |-> text, value |-> value]
JsonLine(value) == Line(TRUE, "json", value)
\* dict.get
Get(d, key, default) == IF key \in DOMAIN d THEN d[key] ELSE default
EmptyDict == <<>>

EmptyLine == Line(FALSE, "", EmptyDict)
DoneLine == Line(TRUE, "[DONE]", EmptyDict)
BareDoneLine == Line(FALSE, "[DONE]", EmptyDict)
PrefixOnlyLine == Line(TRUE, "", EmptyDict)
GarbageLine == Line(TRUE, ": keep-alive", EmptyDict)
ContentLine(content) ==
    JsonLine([model |-> "gpt", choices |-> <<[delta |-> [content |-> content], index |-> 0]>>])
StopLine ==
    JsonLine([model |-> "gpt",
              choices |-> <<[delta |-> EmptyDict, finish_reason |-> "stop", index |-> 0]>>])
\* JSON that is not a completion chunk: an object without "choices", and
\* one whose "choices" is the empty list
ErrorLine == JsonLine([error |-> "overloaded"])
NoChoicesLine == JsonLine([model |-> "gpt", choices |-> <<>>])
Lines ==
    {EmptyLine, DoneLine, BareDoneLine, PrefixOnlyLine, GarbageLine, ContentLine("Hello"),
     ContentLine("!"), StopLine, ErrorLine, NoChoicesLine}

\* the lines of a response
MaxLines == 3
Streams == UNION {[1..n -> Lines] : n \in 0..MaxLines}

\* line[6:] without the test line.startswith("data: ")
strip_prefix_always(line) ==
    IF line.prefix THEN [line EXCEPT !.prefix = FALSE] ELSE [line EXCEPT !.text = ""]
\* if line.startswith("data: "): line = line[6:]
strip_prefix(line) == IF line.prefix THEN [line EXCEPT !.prefix = FALSE] ELSE line
\* json.loads
json_loads(line) ==
    IF ~line.prefix /\ line.text = "json" THEN [exc |-> OK, data |-> line.value]
    ELSE [exc |-> JSONDecodeError, data |-> EmptyDict]

\* LLMResultChunk(model=data["model"], delta=content, ...)
LLMResultChunk(data, choice, content) ==
    [model |-> data.model, delta |-> content,
     finish_reason |-> Get(choice, "finish_reason", None), index |-> Get(choice, "index", 0)]

\* the body of the loop for one line: what the generator does next ("next"
\* for continue, "yield", "break", or the exception that leaves it) and the
\* chunk it yields
LineStep(todo, chunk) == [todo |-> todo, chunk |-> chunk]
stream_invoke_line(raw) ==
    LET line == strip_prefix(raw)
        parsed == json_loads(line)
        data == parsed.data
        choice == data.choices[1]
        delta == Get(choice, "delta", EmptyDict)
        content == Get(delta, "content", "")
    IN
    IF ~raw.prefix /\ raw.text = "" THEN LineStep("next", EmptyDict)
    ELSE IF ~line.prefix /\ line.text = "[DONE]" THEN LineStep("break", EmptyDict)
    ELSE IF parsed.exc = JSONDecodeError THEN LineStep("next", EmptyDict)
    ELSE IF "choices" \notin DOMAIN data THEN LineStep(KeyError, EmptyDict)
    ELSE IF Len(data.choices) = 0 THEN LineStep(IndexError, EmptyDict)
    ELSE IF content = "" THEN LineStep("next", EmptyDict)
    ELSE IF "model" \notin DOMAIN data THEN LineStep(KeyError, EmptyDict)
    ELSE LineStep("yield", LLMResultChunk(data, choice, content))

\* the generator takes the next line of response.iter_lines(), or finds
\* there is none and returns
stream_invoke_next ==
    /\ stream.state = "running"
    /\ IF stream.pos > Len(stream.lines)
       THEN stream' = [stream EXCEPT !.state = "returned"]
       ELSE LET step == stream_invoke_line(stream.lines[stream.pos])
            IN  stream' =
                    [stream EXCEPT
                        !.pos = @ + 1,
                        !.chunks = IF step.todo = "yield" THEN Append(@, step.chunk) ELSE @,
                        !.state = CASE step.todo \in {"next", "yield"} -> "running"
                                    [] step.todo = "break" -> "returned"
                                    [] OTHER -> step.todo]
    /\ last' = [op |-> "stream_invoke", exc |-> OK]
    /\ UNCHANGED <<tenantVars, response, accounts, model_providers, apps, tokens, utcnow,
                   llm_providers, embedding_providers, constructed, calls>>

\* a stream_invoke call whose request has been answered 200, before it has
\* read a line, whatever lines the response holds
InitStream ==
    /\ InitTenants
    /\ last = NoCall
    /\ response = NoResponse
    /\ accounts = RegisteredAccounts
    /\ model_providers = <<>>
    /\ apps = <<>>
    /\ tokens = {}
    /\ utcnow = 0
    /\ llm_providers = <<>>
    /\ embedding_providers = <<>>
    /\ constructed = 0
    /\ stream \in {[lines |-> l, pos |-> 1, chunks |-> <<>>, state |-> "running"] :
                       l \in Streams}
    /\ calls = [p \in Procs |-> Idle]

NextStream == stream_invoke_next

SpecStream == InitStream /\ [][NextStream]_vars

(***************************************************************************)
(* ModelProviderFactory: the two class-level caches, every read and write  *)
(* of a cache a step of its own                                            *)
(* (core/model_runtime/providers/provider_factory.py)                      *)
(***************************************************************************)
LLM == "llm"
EMBEDDING == "embedding"
\* the type each method constructs an adapter for
SupportedType(family) == IF family = LLM THEN OPENAI ELSE TEI
\* cls._llm_providers and cls._embedding_providers
Cache(family) == IF family = LLM THEN llm_providers ELSE embedding_providers
\* cache[provider_type] = instance
Store(cache, provider_type, instance) ==
    [t \in DOMAIN cache \cup {provider_type} |->
        IF t = provider_type THEN instance ELSE cache[t]]

\* a thread that is in neither method
IdleFactory == [pc |-> "idle", family |-> None, provider_type |-> None, result |-> 0,
                exc |-> OK]

\* if provider_type not in cls._llm_providers: ... else: raise ValueError
step_get_provider_check(p, family, provider_type) ==
    /\ calls[p].pc \in {"idle", "returned"}
    /\ calls' = [calls EXCEPT ![p] =
           [pc |-> IF provider_type \in DOMAIN Cache(family) THEN "return"
                   ELSE IF provider_type = SupportedType(family) THEN "store"
                   ELSE "returned",
            family |-> family, provider_type |-> provider_type, result |-> 0,
            exc |-> IF provider_type \in DOMAIN Cache(family)
                       \/ provider_type = SupportedType(family)
                    THEN OK ELSE ValueError]]
    /\ last' = [op |-> "get_provider:check", exc |-> calls'[p].exc]
    /\ UNCHANGED <<tenantVars, response, accounts, model_providers, apps, tokens, utcnow,
                   llm_providers, embedding_providers, constructed, stream>>

get_llm_provider(p, provider_type) == step_get_provider_check(p, LLM, provider_type)
get_embedding_provider(p, provider_type) == step_get_provider_check(p, EMBEDDING, provider_type)

\* cls._llm_providers[provider_type] = OpenAIProvider(): a new instance is
\* made and put in the cache, over whatever is there
step_get_provider_store(p) ==
    /\ calls[p].pc = "store"
    /\ constructed' = constructed + 1
    /\ IF calls[p].family = LLM
       THEN /\ llm_providers' = Store(llm_providers, calls[p].provider_type, constructed')
            /\ UNCHANGED embedding_providers
       ELSE /\ embedding_providers' =
                   Store(embedding_providers, calls[p].provider_type, constructed')
            /\ UNCHANGED llm_providers
    /\ calls' = [calls EXCEPT ![p].pc = "return"]
    /\ last' = [op |-> "get_provider:store", exc |-> OK]
    /\ UNCHANGED <<tenantVars, response, accounts, model_providers, apps, tokens, utcnow,
                   stream>>

\* return cls._llm_providers[provider_type]
step_get_provider_return(p) ==
    /\ calls[p].pc = "return"
    /\ calls' = [calls EXCEPT ![p].pc = "returned",
                              ![p].result = Cache(calls[p].family)[calls[p].provider_type]]
    /\ last' = [op |-> "get_provider:return", exc |-> OK]
    /\ UNCHANGED <<tenantVars, response, accounts, model_providers, apps, tokens, utcnow,
                   llm_providers, embedding_providers, constructed, stream>>

InitFactory ==
    /\ InitTenants
    /\ last = NoCall
    /\ response = NoResponse
    /\ accounts = RegisteredAccounts
    /\ model_providers = <<>>
    /\ apps = <<>>
    /\ InitSession
    /\ calls = [p \in Procs |-> IdleFactory]

NextFactory ==
    \/ \E p \in Procs, t \in ProviderType : get_llm_provider(p, t)
    \/ \E p \in Procs, t \in ProviderType : get_embedding_provider(p, t)
    \/ \E p \in Procs : step_get_provider_store(p)
    \/ \E p \in Procs : step_get_provider_return(p)

\* Two threads of one process in the factory's methods.
SpecFactory == InitFactory /\ [][NextFactory]_vars

(***************************************************************************)
(* The tenant service under concurrent requests.  No transaction spans a   *)
(* call: each query and each commit is a store round-trip of its own, and  *)
(* the round-trips of the calls in Procs interleave.  A step is one        *)
(* round-trip that reads or writes rows other requests change, with the    *)
(* checks the call makes on what it read.                                  *)
(***************************************************************************)
\* the accounts the concurrent requests name
ConcAccounts == {1, 2}
ConcTargets(t) == IF TenantExists(tenants, t) THEN ConcAccounts \cup {MissingAccount} ELSE {1}
ConcMembers(t) == IF TenantExists(tenants, t) THEN ConcAccounts ELSE {1}

\* the call of p returns or raises; of a finished call the specification keeps
\* the operation and the exception
Returns(p, op, exc) ==
    /\ calls' = [calls EXCEPT ![p] = Idle]
    /\ last' = [NoCall EXCEPT !.op = op, !.exc = exc]

Continues(p, locals) ==
    /\ calls' = [calls EXCEPT ![p] = locals]
    /\ UNCHANGED last

\* create_tenant up to the get_by_name query
step_create_tenant_check(p, name, owner_account_id) ==
    /\ calls[p].pc = "idle"
    \* one create_tenant call at a time
    /\ \A q \in Procs : calls[q].op # "create_tenant"
    /\ Len(tenants) < MaxTenants
    /\ IF name = <<>> \/ Len(strip(name)) = 0 \/ Len(strip(name)) > MaxNameLength
       THEN Returns(p, "create_tenant", ValidationError)
       ELSE IF ~AccountExists(owner_account_id)
       THEN Returns(p, "create_tenant", ResourceNotFoundError)
       ELSE IF get_by_name(tenants, strip(name)) # {}
       THEN Returns(p, "create_tenant", ResourceConflictError)
       ELSE Continues(p, [Idle EXCEPT !.pc = "create", !.op = "create_tenant",
                                      !.name = strip(name), !.account = owner_account_id])
    /\ UNCHANGED <<tenantVars, response, accounts, model_providers, apps, sessionVars>>

\* tenant_repo.create: the INSERT of the tenant row and its commit
step_create_tenant_create(p) ==
    /\ calls[p].pc = "create"
    /\ tenants' = Append(tenants, [name |-> calls[p].name])
    /\ created_by' = Append(created_by, calls[p].account)
    /\ Continues(p, [calls[p] EXCEPT !.pc = "select", !.tenant = Len(tenants) + 1,
                                     !.role = OWNER])
    /\ UNCHANGED <<tenant_account_joins, response, accounts, model_providers, apps, sessionVars>>

\* add_member up to the query of the operator's role
step_add_member_check(p, tenant_id, account_id, role, operator_account_id) ==
    /\ calls[p].pc = "idle"
    /\ IF ~TenantExists(tenants, tenant_id) \/ ~AccountExists(account_id)
       THEN Returns(p, "add_member", ResourceNotFoundError)
       ELSE IF get_member_role(tenant_account_joins, tenant_id, operator_account_id)
                   \notin {OWNER, ADMIN}
       THEN Returns(p, "add_member", AuthorizationError)
       ELSE Continues(p, [Idle EXCEPT !.pc = "is_member", !.op = "add_member",
                                      !.tenant = tenant_id, !.account = account_id,
                                      !.role = role])
    /\ UNCHANGED <<tenantVars, response, accounts, model_providers, apps, sessionVars>>

\* add_member: the is_member query
step_add_member_is_member(p) ==
    /\ calls[p].pc = "is_member"
    /\ IF is_member(tenant_account_joins, calls[p].tenant, calls[p].account)
       THEN Returns(p, "add_member", ResourceConflictError)
       ELSE Continues(p, [calls[p] EXCEPT !.pc = "select"])
    /\ UNCHANGED <<tenantVars, response, accounts, model_providers, apps, sessionVars>>

\* TenantRepository.add_member: the query for an existing row; the repository
\* returns None when there is one, and the service call returns normally
step_repo_add_member_select(p) ==
    /\ calls[p].pc = "select"
    /\ IF JoinRows(tenant_account_joins, calls[p].tenant, calls[p].account) # <<>>
       THEN Returns(p, calls[p].op, OK)
       ELSE Continues(p, [calls[p] EXCEPT !.pc = "insert"])
    /\ UNCHANGED <<tenantVars, response, accounts, model_providers, apps, sessionVars>>

\* TenantRepository.add_member: the INSERT of the join row and its commit
step_repo_add_member_insert(p) ==
    /\ calls[p].pc = "insert"
    /\ IF InsertAllowed(tenant_account_joins, calls[p].tenant, calls[p].account)
       THEN /\ tenant_account_joins' = InsertJoin(tenant_account_joins, calls[p].tenant,
                                                  calls[p].account, calls[p].role)
            /\ Returns(p, calls[p].op, OK)
       ELSE /\ UNCHANGED tenant_account_joins
            /\ Returns(p, calls[p].op, IntegrityError)
    /\ UNCHANGED <<tenants, created_by, response, accounts, model_providers, apps, sessionVars>>

\* remove_member up to the query of the operator's role
step_remove_member_check_operator(p, tenant_id, account_id, operator_account_id) ==
    /\ calls[p].pc = "idle"
    /\ LET operator_role == get_member_role(tenant_account_joins, tenant_id,
                                            operator_account_id)
       IN  IF ~TenantExists(tenants, tenant_id)
           THEN Returns(p, "remove_member", ResourceNotFoundError)
           ELSE IF operator_role \notin {OWNER, ADMIN}
           THEN Returns(p, "remove_member", AuthorizationError)
           ELSE Continues(p, [Idle EXCEPT !.pc = "remove_check", !.op = "remove_member",
                                          !.tenant = tenant_id, !.account = account_id,
                                          !.operator = operator_account_id,
                                          !.operator_role = operator_role])
    /\ UNCHANGED <<tenantVars, response, accounts, model_providers, apps, sessionVars>>

\* remove_member: the query of the target's role, and the rules on it
step_remove_member_check_member(p) ==
    /\ calls[p].pc = "remove_check"
    /\ LET member_role == get_member_role(tenant_account_joins, calls[p].tenant,
                                          calls[p].account)
           t == calls[p].tenant
           a == calls[p].account
       IN  IF member_role = None
           THEN Returns(p, "remove_member", ResourceNotFoundError)
           ELSE IF member_role = OWNER
           THEN Returns(p, "remove_member", BusinessLogicError)
           ELSE IF calls[p].operator_role = ADMIN /\ member_role = ADMIN
           THEN Returns(p, "remove_member", AuthorizationError)
           ELSE Continues(p, [calls[p] EXCEPT !.pc = "delete"])
    /\ UNCHANGED <<tenantVars, response, accounts, model_providers, apps, sessionVars>>

\* a remove_member whose delete applies the role rules again to the rows as
\* they are now
step_repo_remove_member_rechecked(p) ==
    /\ calls[p].pc = "delete"
    /\ LET operator_role == get_member_role(tenant_account_joins, calls[p].tenant,
                                            calls[p].operator)
           member_role == get_member_role(tenant_account_joins, calls[p].tenant,
                                          calls[p].account)
       IN  IF operator_role \notin {OWNER, ADMIN}
              \/ (operator_role = ADMIN /\ member_role = ADMIN)
           THEN /\ Returns(p, "remove_member", AuthorizationError)
                /\ UNCHANGED tenant_account_joins
           ELSE /\ tenant_account_joins' =
                       repo_remove_member(tenant_account_joins, calls[p].tenant,
                                          calls[p].account)
                /\ Returns(p, "remove_member", OK)
    /\ UNCHANGED <<tenants, created_by, response, accounts, model_providers, apps, sessionVars>>

\* TenantRepository.remove_member: the row it finds is deleted and the delete
\* committed; the call returns normally when it finds none. Of the finished
\* call the specification keeps its arguments and the role of the row it
\* deleted.
step_repo_remove_member(p) ==
    /\ calls[p].pc = "delete"
    /\ tenant_account_joins' = repo_remove_member(tenant_account_joins, calls[p].tenant,
                                                  calls[p].account)
    /\ calls' = [calls EXCEPT ![p] = Idle]
    /\ last' = [op |-> "remove_member", tenant |-> calls[p].tenant,
                account |-> calls[p].account, operator |-> calls[p].operator,
                role |-> get_member_role(tenant_account_joins, calls[p].tenant,
                                         calls[p].account),
                exc |-> OK]
    /\ UNCHANGED <<tenants, created_by, response, accounts, model_providers, apps, sessionVars>>

\* update_member_role up to the query of the operator's role
step_update_member_role_check_operator(p, tenant_id, account_id, new_role, operator_account_id) ==
    /\ calls[p].pc = "idle"
    /\ IF ~TenantExists(tenants, tenant_id)
       THEN Returns(p, "update_member_role", ResourceNotFoundError)
       ELSE IF get_member_role(tenant_account_joins, tenant_id, operator_account_id) # OWNER
       THEN Returns(p, "update_member_role", AuthorizationError)
       ELSE Continues(p, [Idle EXCEPT !.pc = "update_check", !.op = "update_member_role",
                                      !.tenant = tenant_id, !.account = account_id,
                                      !.role = new_role])
    /\ UNCHANGED <<tenantVars, response, accounts, model_providers, apps, sessionVars>>

\* update_member_role: the query of the target's role, and the rules on it
step_update_member_role_check_member(p) ==
    /\ calls[p].pc = "update_check"
    /\ LET member_role == get_member_role(tenant_account_joins, calls[p].tenant,
                                          calls[p].account)
           t == calls[p].tenant
           a == calls[p].account
       IN  IF member_role = None
           THEN Returns(p, "update_member_role", ResourceNotFoundError)
           ELSE IF member_role = OWNER \/ calls[p].role = OWNER
           THEN Returns(p, "update_member_role", BusinessLogicError)
           ELSE Continues(p, [calls[p] EXCEPT !.pc = "update"])
    /\ UNCHANGED <<tenantVars, response, accounts, model_providers, apps, sessionVars>>

\* TenantRepository.update_member_role: the row it finds gets the role and the
\* change is committed
step_repo_update_member_role(p) ==
    /\ calls[p].pc = "update"
    /\ tenant_account_joins' = repo_update_member_role(tenant_account_joins, calls[p].tenant,
                                                       calls[p].account, calls[p].role)
    /\ Returns(p, "update_member_role", OK)
    /\ UNCHANGED <<tenants, created_by, response, accounts, model_providers, apps, sessionVars>>

NextConc ==
    \E p \in Procs :
        \/ \E name \in TenantNames, a \in ConcAccounts \cup {MissingAccount} :
             step_create_tenant_check(p, name, a)
        \/ step_create_tenant_create(p)
        \/ \E t \in AnyTenant :
             \E a \in ConcTargets(t), r \in RolesOf(t), o \in ConcMembers(t) :
               step_add_member_check(p, t, a, r, o)
        \/ step_add_member_is_member(p)
        \/ step_repo_add_member_select(p)
        \/ step_repo_add_member_insert(p)
        \/ \E t \in AnyTenant :
             \E a \in ConcMembers(t), o \in ConcMembers(t) :
               step_remove_member_check_operator(p, t, a, o)
        \/ step_remove_member_check_member(p)
        \/ step_repo_remove_member(p)
        \/ \E t \in AnyTenant :
             \E a \in ConcMembers(t), r \in RolesOf(t), o \in ConcMembers(t) :
               step_update_member_role_check_operator(p, t, a, r, o)
        \/ step_update_member_role_check_member(p)
        \/ step_repo_update_member_role(p)

\* The tenant service, the round-trips of two requests interleaved.
SpecConc == Init /\ [][NextConc]_vars

\* one tenant with its owner 1, an admin 2 and a member 3, as create_tenant
\* and two add_member calls leave it
InitMembers ==
    /\ tenants = <<[name |-> <<"a">>]>>
    /\ created_by = <<1>>
    /\ tenant_account_joins =
           [p \in TenantIds \X AccountIds |->
               IF p[1] # 1 THEN <<>>
               ELSE IF p[2] = 1 THEN <<OWNER>>
               ELSE IF p[2] = 2 THEN <<ADMIN>>
               ELSE <<MEMBER>>]
    /\ last = NoCall
    /\ response = NoResponse
    /\ accounts = RegisteredAccounts
    /\ model_providers = <<>>
    /\ apps = <<>>
    /\ InitSession
    /\ calls = [p \in Procs |-> Idle]

NextMembers ==
    \E p \in Procs :
        \/ \E a \in AccountIds, o \in AccountIds : step_remove_member_check_operator(p, 1, a, o)
        \/ step_remove_member_check_member(p)
        \/ step_repo_remove_member(p)
        \/ \E a \in AccountIds, r \in TenantRole, o \in AccountIds :
             step_update_member_role_check_operator(p, 1, a, r, o)
        \/ step_update_member_role_check_member(p)
        \/ step_repo_update_member_role(p)

\* Two requests that remove members and change roles in one tenant.
SpecMembers == InitMembers /\ [][NextMembers]_vars

(***************************************************************************)
(* add_provider, one step per store round-trip                             *)
(* (services/model_provider_service.py 57-101)                             *)
(***************************************************************************)
\* a model_providers table with a unique index on the active (tenant, name)
create_unique_active_name(P, row) ==
    IF row.is_active /\ get_active_by_tenant_and_name(P, row.tenant_id, row.name) # {}
    THEN ProviderOutcome(IntegrityError, P)
    ELSE ProviderOutcome(OK, Append(P, row))

\* provider_repo.create: session.add and commit; the table has no unique
\* constraint beside its primary key
ModelProviderRepository_create(P, row) == ProviderOutcome(OK, Append(P, row))

\* the locals of an add_provider call
AddProviderCall(pc, tenant_id, name, provider_type, credentials) ==
    [pc |-> pc, op |-> "add_provider", name |-> name, tenant |-> tenant_id, account |-> 0,
     operator |-> 0, role |-> None, operator_role |-> None, provider_type |-> provider_type,
     credentials |-> credentials]

\* add_provider up to the name checks: tenant_repo.get_by_id
step_add_provider_get_tenant(p, tenant_id, name, provider_type, credentials) ==
    /\ calls[p].pc = "idle"
    /\ Len(model_providers) + Cardinality({q \in Procs : calls[q].op = "add_provider"})
           < MaxProviders
    /\ IF ~TenantExists(tenants, tenant_id)
       THEN Returns(p, "add_provider", ResourceNotFoundError)
       ELSE IF name = <<>> \/ Len(strip(name)) = 0 \/ Len(name) > MaxNameLength
       THEN Returns(p, "add_provider", ValidationError)
       ELSE /\ calls' = [calls EXCEPT ![p] =
                   AddProviderCall("check_name", tenant_id, name, provider_type, credentials)]
            /\ last' = [NoCall EXCEPT !.op = "add_provider:get_tenant"]
    /\ UNCHANGED <<tenantVars, response, accounts, model_providers, apps, sessionVars>>

\* provider_repo.get_active_by_tenant_and_name
step_add_provider_check_name(p) ==
    /\ calls[p].op = "add_provider"
    /\ calls[p].pc = "check_name"
    /\ IF get_active_by_tenant_and_name(model_providers, calls[p].tenant, calls[p].name) # {}
       THEN Returns(p, "add_provider", ResourceConflictError)
       ELSE /\ calls' = [calls EXCEPT ![p].pc = "create"]
            /\ last' = [NoCall EXCEPT !.op = "add_provider:check_name"]
    /\ UNCHANGED <<tenantVars, response, accounts, model_providers, apps, sessionVars>>

\* the credential checks and provider_repo.create
step_add_provider_create(p) ==
    /\ calls[p].op = "add_provider"
    /\ calls[p].pc = "create"
    /\ IF calls[p].credentials = NoCredentials
       THEN /\ Returns(p, "add_provider", ValidationError)
            /\ UNCHANGED model_providers
       ELSE IF ~ModelProviderService_validate_credentials(calls[p].provider_type,
                                                          calls[p].credentials)
       THEN /\ Returns(p, "add_provider", BusinessLogicError)
            /\ UNCHANGED model_providers
       ELSE LET out == ModelProviderRepository_create(model_providers,
                           [exists |-> TRUE, tenant_id |-> calls[p].tenant,
                            name |-> calls[p].name,
                            provider_type |-> calls[p].provider_type,
                            encrypted_credentials |->
                                encrypt_credentials(calls[p].credentials),
                            is_active |-> TRUE, created_by |-> None])
            IN  /\ model_providers' = out.providers
                /\ Returns(p, "add_provider", out.exc)
    /\ UNCHANGED <<tenantVars, response, accounts, apps, sessionVars>>

AddProviderNames == {<<>>, <<"x">>, <<"y">>}

NextProviderConc ==
    \/ \E p \in Procs, t \in ProviderTenants, name \in AddProviderNames, c \in Credentials :
         step_add_provider_get_tenant(p, t, name, OPENAI, c)
    \/ \E p \in Procs : step_add_provider_check_name(p)
    \/ \E p \in Procs : step_add_provider_create(p)

\* Two add_provider requests on the tenants of InitProvider.
SpecProviderConc == InitProvider /\ [][NextProviderConc]_vars

(***************************************************************************)
(* Properties of the membership rules                                      *)
(***************************************************************************)
\* the role an account holds in a tenant before and after the step
RoleBefore(t, a) == get_member_role(tenant_account_joins, t, a)
RoleAfter(t, a) == get_member_role(tenant_account_joins', t, a)
\* the step leaves every membership as it was
JoinsUnchanged == tenant_account_joins' = tenant_account_joins
\* the step changes no membership but the one of account a in tenant t
OnlyPairChanged(t, a) ==
    \A p \in DOMAIN tenant_account_joins :
        p # <<t, a>> => tenant_account_joins'[p] = tenant_account_joins[p]

\* C7: a remove_member call on a tenant deletes a membership only when its
\* operator holds owner or admin there; an admin operator on another admin gets
\* AuthorizationError; a member or non-member operator gets AuthorizationError
\* and nothing is removed; and whenever a membership with role admin goes away,
\* the step is a remove_member call whose operator holds owner.
C7_RemoveMemberPrivilege ==
    [][ /\ (last'.op = "remove_member" /\ TenantExists(tenants, last'.tenant)) =>
            LET t == last'.tenant
                a == last'.account
                o == last'.operator
            IN  /\ ~JoinsUnchanged => RoleBefore(t, o) \in {OWNER, ADMIN}
                /\ ~JoinsUnchanged => last'.exc = OK
                /\ OnlyPairChanged(t, a)
                /\ (RoleBefore(t, o) = ADMIN /\ RoleBefore(t, a) = ADMIN /\ a # o) =>
                       (last'.exc = AuthorizationError /\ JoinsUnchanged)
                /\ RoleBefore(t, o) \notin {OWNER, ADMIN} =>
                       (last'.exc = AuthorizationError /\ JoinsUnchanged)
        /\ \A t \in TenantIds, a \in AccountIds :
             (RoleBefore(t, a) = ADMIN /\ RoleAfter(t, a) = None) =>
                 /\ last'.op = "remove_member"
                 /\ last'.tenant = t /\ last'.account = a
                 /\ RoleBefore(t, last'.operator) = OWNER
      ]_vars

\* an admin has just been refused the removal of another admin
C7_AdminRefused ==
    /\ last.op = "remove_member"
    /\ last.exc = AuthorizationError
    /\ last.account # last.operator
    /\ get_member_role(tenant_account_joins, last.tenant, last.operator) = ADMIN
    /\ get_member_role(tenant_account_joins, last.tenant, last.account) = ADMIN

\* what C8 and its correction share: a role changes only under an owner
\* operator, other operators get AuthorizationError, a failure changes nothing,
\* and no account that was not owner becomes owner
UpdateRoleCommon(t, a, o) ==
    /\ ~JoinsUnchanged => (RoleBefore(t, o) = OWNER /\ last'.exc = OK)
    /\ RoleBefore(t, o) # OWNER => last'.exc = AuthorizationError
    /\ last'.exc # OK => JoinsUnchanged
    /\ OnlyPairChanged(t, a)
    /\ \A b \in AccountIds : RoleAfter(t, b) = OWNER => RoleBefore(t, b) = OWNER

\* C8 as stated: an update_member_role call on a tenant changes a role only
\* when its operator holds owner (others get AuthorizationError); with an owner
\* operator and new_role owner it fails with BusinessLogicError; a failure
\* leaves the roles unchanged and nobody is raised to owner.
C8_Original ==
    [][ (last'.op = "update_member_role" /\ TenantExists(tenants, last'.tenant)) =>
            LET t == last'.tenant
                a == last'.account
                o == last'.operator
            IN  /\ UpdateRoleCommon(t, a, o)
                /\ (RoleBefore(t, o) = OWNER /\ last'.role = OWNER) =>
                       last'.exc = BusinessLogicError
      ]_vars

\* C8, corrected: as C8, but with an owner operator and new_role owner the call
\* fails with BusinessLogicError when the target is a member of the tenant, and
\* with ResourceNotFoundError when it is not.
C8_UpdateRoleOwnerOnly ==
    [][ (last'.op = "update_member_role" /\ TenantExists(tenants, last'.tenant)) =>
            LET t == last'.tenant
                a == last'.account
                o == last'.operator
            IN  /\ UpdateRoleCommon(t, a, o)
                /\ (RoleBefore(t, o) = OWNER /\ last'.role = OWNER) =>
                       last'.exc = IF RoleBefore(t, a) = None
                                   THEN ResourceNotFoundError
                                   ELSE BusinessLogicError
      ]_vars

\* the owner has just been refused the raising of a member to owner
C8_OwnerRefused ==
    /\ last.op = "update_member_role"
    /\ last.exc = BusinessLogicError
    /\ last.role = OWNER
    /\ get_member_role(tenant_account_joins, last.tenant, last.operator) = OWNER
    /\ get_member_role(tenant_account_joins, last.tenant, last.account) \in {ADMIN, MEMBER}

\* C9: an add_member call for an account on a tenant fails with
\* AuthorizationError when its operator holds neither owner nor admin, else with
\* ResourceConflictError when the account is a member already; a failure leaves
\* the memberships unchanged; a success adds one membership, the target's, with
\* the requested role, and changes no other.
C9_AddMember ==
    [][ (/\ last'.op = "add_member"
         /\ TenantExists(tenants, last'.tenant)
         /\ AccountExists(last'.account)) =>
            LET t == last'.tenant
                a == last'.account
                o == last'.operator
            IN  /\ last'.exc = IF RoleBefore(t, o) \notin {OWNER, ADMIN}
                               THEN AuthorizationError
                               ELSE IF RoleBefore(t, a) # None
                               THEN ResourceConflictError
                               ELSE OK
                /\ last'.exc # OK => JoinsUnchanged
                /\ last'.exc = OK =>
                       /\ tenant_account_joins[<<t, a>>] = <<>>
                       /\ tenant_account_joins'[<<t, a>>] = <<last'.role>>
                /\ OnlyPairChanged(t, a)
      ]_vars

\* an admin has just added a member
C9_AdminAdded ==
    /\ last.op = "add_member"
    /\ last.exc = OK
    /\ get_member_role(tenant_account_joins, last.tenant, last.operator) = ADMIN
    /\ tenant_account_joins[<<last.tenant, last.account>>] = <<last.role>>

(***************************************************************************)
(* Properties of the members endpoints                                     *)
(***************************************************************************)
\* C2: after any sequence of requests to the tenant endpoints, every
\* membership with role owner belongs to the account that created the tenant,
\* so a tenant has at most one owner.
C2_OwnerIsCreator ==
    \A t \in 1..Len(tenants) : \A a \in AccountIds :
        get_member_role(tenant_account_joins, t, a) = OWNER => a = created_by[t]

\* C6: a request during which the service raised BusinessLogicError is
\* answered 400 or 422.
C6_BusinessLogicErrorStatus ==
    last.exc = BusinessLogicError => response \in {400, 422}

(***************************************************************************)
(* Properties of the concurrent requests                                   *)
(***************************************************************************)
\* a remove_member or update_member_role call that has passed its checks and
\* stands before its write
AtWrite(p) == calls[p].pc \in {"delete", "update"}

\* the remove_member and update_member_role calls whose target is the creator
\* of their tenant never pass their checks
CreatorNeverWritten ==
    \A p \in Procs :
        (AtWrite(p) /\ TenantExists(tenants, calls[p].tenant)) =>
            calls[p].account # created_by[calls[p].tenant]

\* C1: however the round-trips of the requests interleave, a remove_member or
\* update_member_role call whose target is the creator of its tenant never
\* passes its checks, so it fails and changes no membership; and the creator of
\* every tenant holds owner in it in every reachable state.
C1_CreatorHoldsOwner ==
    /\ CreatorNeverWritten
    /\ \A t \in 1..Len(tenants) :
           get_member_role(tenant_account_joins, t, created_by[t]) = OWNER

\* C10: in every state the interleaved add_member and create_tenant calls
\* reach, a (tenant, account) pair has at most one membership row.
C10_OneRowPerPair ==
    \A pair \in DOMAIN tenant_account_joins : Len(tenant_account_joins[pair]) <= 1

\* two add_member calls for one pair both passed is_member and the repository's
\* query; the INSERT of the second has just been refused
C10_SecondInsertRefused ==
    /\ last.op = "add_member"
    /\ last.exc = IntegrityError
    /\ \E pair \in DOMAIN tenant_account_joins : Len(tenant_account_joins[pair]) = 1

(***************************************************************************)
(* Properties of tenant names                                              *)
(***************************************************************************)
\* C4: in every state reached by create_tenant and update_tenant calls no two
\* tenants have the same name.
C4_TenantNamesUnique ==
    \A t1, t2 \in 1..Len(tenants) : t1 # t2 => tenants[t1].name # tenants[t2].name

(***************************************************************************)
(* Properties of login                                                     *)
(***************************************************************************)
\* the password matches the account registered under the email
PasswordMatches(A, email, password) ==
    \E a \in get_by_email(A, email) : check_password_hash(A[a].password_hash, password)

\* C5: a login whose password does not match, be it that no account has the
\* email or that the account's password is another, fails with
\* AuthenticationError and the message "Invalid email or password", whatever
\* the status of the account.
C5_WrongPasswordGeneric ==
    (last.op = "login" /\ ~PasswordMatches(accounts, last.email, last.password)) =>
        (last.exc = AuthenticationError /\ last.message = InvalidCredentials)

(***************************************************************************)
(* Properties of the model providers                                       *)
(***************************************************************************)
\* C3: in every state reached by add_provider, update_provider,
\* activate_provider, deactivate_provider and delete_provider calls, no two
\* active providers of one tenant have the same name.
C3_ActiveNamesUnique ==
    \A p1, p2 \in ProviderRows(model_providers) :
        (/\ p1 # p2
         /\ model_providers[p1].tenant_id = model_providers[p2].tenant_id
         /\ model_providers[p1].is_active
         /\ model_providers[p2].is_active) =>
            model_providers[p1].name # model_providers[p2].name

(***************************************************************************)
(* AuthService.register, one step per round-trip to the store, two         *)
(* requests at a time                                                      *)
(***************************************************************************)
\* the locals of a register call between its steps
IdleAuth == [pc |-> "idle", email |-> <<>>, password |-> <<>>, name |-> <<>>]

\* the table without its unique index on email
EmailInsertUnconstrained(A, email) == TRUE
\* Account.email is unique=True: the INSERT of a second row with the email is
\* refused
EmailInsertAllowed(A, email) == ~email_exists(A, email)

RegisterCall(email, password, name, exc) ==
    [op |-> "register", email |-> email, password |-> password, name |-> name,
     exc |-> exc]

\* register up to the email_exists query
step_register_check(p, email, password, name) ==
    /\ calls[p].pc = "idle"
    /\ LET out == AuthService_register(accounts, email, password, name)
       IN  IF out.exc # OK
           THEN /\ last' = RegisterCall(email, password, name, out.exc)
                /\ UNCHANGED calls
           ELSE /\ calls' = [calls EXCEPT ![p] = [pc |-> "create", email |-> email,
                                                  password |-> password, name |-> name]]
                /\ UNCHANGED last
    /\ UNCHANGED <<tenantVars, response, accounts, model_providers, apps, sessionVars>>

\* account_repo.create: the INSERT and its commit
step_register_create(p) ==
    /\ calls[p].pc = "create"
    /\ LET c == calls[p]
       IN  IF EmailInsertAllowed(accounts, c.email)
           THEN /\ accounts' = Append(accounts, AccountRow(c.email, c.password, c.name))
                /\ last' = RegisterCall(c.email, c.password, c.name, OK)
           ELSE /\ UNCHANGED accounts
                /\ last' = RegisterCall(c.email, c.password, c.name, IntegrityError)
    /\ calls' = [calls EXCEPT ![p] = IdleAuth]
    /\ UNCHANGED <<tenantVars, response, model_providers, apps, sessionVars>>

InitRegister ==
    /\ InitTenants
    /\ last = NoCall
    /\ response = NoResponse
    /\ accounts = <<>>
    /\ model_providers = <<>>
    /\ apps = <<>>
    /\ InitSession
    /\ calls = [p \in Procs |-> IdleAuth]

NextRegister ==
    \/ \E p \in Procs, email \in Emails, password \in Passwords, name \in AccountNames :
         step_register_check(p, email, password, name)
    \/ \E p \in Procs : step_register_create(p)

SpecRegister == InitRegister /\ [][NextRegister]_vars

(***************************************************************************)
(* Properties of register                                                  *)
(***************************************************************************)
EmailsUnique ==
    \A a, b \in 1..Len(accounts) : a # b => accounts[a].email # accounts[b].email

\* a register call came back from its email_exists query with an exception
RefusedAtCheck == calls' = calls /\ last'.op = "register"

\* C11 as stated: no two accounts ever have the same email, and a register
\* call that finds its email in the table fails with ResourceConflictError
\* and creates no account.
C11_Original ==
    /\ []EmailsUnique
    /\ [][(RefusedAtCheck /\ email_exists(accounts, last'.email)) =>
            (last'.exc = ResourceConflictError /\ accounts' = accounts)]_vars

\* C11: in every state, also those reached by interleaved register calls
\* with the same email, no two accounts have the same email; a register call
\* that finds its email in the table creates no account and fails, with
\* ResourceConflictError when its password and name are valid and with
\* ValidationError when one of them is not; a register call creates an
\* account only when it ends without an exception, and then exactly one.
C11_EmailUnique ==
    /\ []EmailsUnique
    /\ [][/\ (RefusedAtCheck /\ email_exists(accounts, last'.email)) =>
                /\ accounts' = accounts
                /\ last'.exc =
                     IF /\ AuthService_validate_password(last'.password)
                        /\ Len(strip(last'.name)) > 0
                     THEN ResourceConflictError ELSE ValidationError
          /\ (last'.op = "register" /\ last'.exc # OK) => accounts' = accounts
          /\ accounts' # accounts =>
                /\ last'.exc = OK
                /\ accounts' = Append(accounts, AccountRow(last'.email, last'.password,
                                                           last'.name))]_vars

\* a second register with a registered email and a valid password and name
\* was refused
C11_ConflictRefused ==
    /\ last.op = "register"
    /\ last.exc = ResourceConflictError
    /\ \E a \in 1..Len(accounts) : accounts[a].email = last.email

(***************************************************************************)
(* TenantService.check_permission                                          *)
(***************************************************************************)
\* check_permission with an admin passing every required role
check_permission_admin_passes_all(J, tenant_id, account_id, required_role) ==
    get_member_role(J, tenant_id, account_id) \in {OWNER, ADMIN}
        \/ (get_member_role(J, tenant_id, account_id) = MEMBER /\ required_role = MEMBER)

TenantService_check_permission(J, tenant_id, account_id, required_role) ==
    LET member_role == get_member_role(J, tenant_id, account_id)
    IN  IF member_role = None
        THEN FALSE
        ELSE IF member_role = OWNER
        THEN TRUE
        ELSE IF member_role = ADMIN
        THEN required_role \in {ADMIN, MEMBER}
        ELSE required_role = MEMBER

(***************************************************************************)
(* AppService and AppRepository, one call at a time                        *)
(***************************************************************************)
MaxApps == 1

NORMAL == "normal"
ARCHIVED == "archived"
AppStatus == {NORMAL, ARCHIVED}

\* AppModelConfig of an app: none, or the config_data it was given
NoConfig == "none"
ConfigData == "config"

AppNames == {<<>>, <<" ">>, <<"a", " ">>, LongName}

\* a row that BaseRepository.delete has removed: its id names no app
DeletedApp ==
    [exists |-> FALSE, tenant_id |-> 0, name |-> <<>>, status |-> NORMAL,
     enable_site |-> FALSE, enable_api |-> FALSE, model_config |-> NoConfig,
     created_by |-> 0]

\* the columns of apps the operations here write; mode, description and icon
\* are written once, by create, like created_by
AppRow(tenant_id, name, model_config, creator) ==
    [exists |-> TRUE, tenant_id |-> tenant_id, name |-> name, status |-> NORMAL,
     enable_site |-> TRUE, enable_api |-> TRUE, model_config |-> model_config,
     created_by |-> creator]

\* BaseRepository.get_by_id on apps
AppExists(A, app_id) == app_id \in 1..Len(A) /\ A[app_id].exists
\* BaseRepository.update: setattr for every key the row has
repo_update(A, app_id, updates) ==
    [A EXCEPT ![app_id] =
        [f \in DOMAIN A[app_id] |-> IF f \in DOMAIN updates THEN updates[f] ELSE A[app_id][f]]]
\* AppRepository.get_by_tenant
get_by_tenant(A, tenant_id) ==
    {i \in 1..Len(A) : A[i].exists /\ A[i].tenant_id = tenant_id}
\* AppRepository.get_active_apps_by_tenant
get_active_apps_by_tenant(A, tenant_id) ==
    {i \in 1..Len(A) : A[i].exists /\ A[i].tenant_id = tenant_id /\ A[i].status = NORMAL}

\* what a call of AppService leaves: the exception, the table and what it returns
AppOutcome(exc, A, result) == [exc |-> exc, apps |-> A, result |-> result]

\* delete_app open to every member of the tenant
delete_app_by_any_member(J, A, app_id, account_id) ==
    IF ~AppExists(A, app_id)
    THEN AppOutcome(ResourceNotFoundError, A, None)
    ELSE IF ~is_member(J, A[app_id].tenant_id, account_id)
    THEN AppOutcome(AuthorizationError, A, None)
    ELSE AppOutcome(OK, [A EXCEPT ![app_id] = DeletedApp], None)

\* archive_app without the membership check
archive_app_unchecked(J, A, app_id, account_id) ==
    IF ~AppExists(A, app_id)
    THEN AppOutcome(ResourceNotFoundError, A, None)
    ELSE AppOutcome(OK, repo_update(A, app_id, [status |-> ARCHIVED]), app_id)

\* unarchive_app that leaves the status as it is
unarchive_app_keeps_status(J, A, app_id, account_id) ==
    IF ~AppExists(A, app_id)
    THEN AppOutcome(ResourceNotFoundError, A, None)
    ELSE IF ~is_member(J, A[app_id].tenant_id, account_id)
    THEN AppOutcome(AuthorizationError, A, None)
    ELSE AppOutcome(OK, A, app_id)

AppService_create_app(T, J, A, tenant_id, account_id, name) ==
    IF name = <<>> \/ Len(strip(name)) = 0
    THEN AppOutcome(ValidationError, A, None)
    ELSE IF Len(strip(name)) > MaxNameLength
    THEN AppOutcome(ValidationError, A, None)
    ELSE IF ~TenantExists(T, tenant_id)
    THEN AppOutcome(ResourceNotFoundError, A, None)
    ELSE IF ~is_member(J, tenant_id, account_id)
    THEN AppOutcome(AuthorizationError, A, None)
    ELSE AppOutcome(OK, Append(A, AppRow(tenant_id, strip(name), NoConfig, account_id)), Len(A) + 1)

AppService_create_app_with_config(T, J, A, tenant_id, account_id, name, config_data) ==
    IF ~TenantExists(T, tenant_id)
    THEN AppOutcome(ResourceNotFoundError, A, None)
    ELSE IF ~is_member(J, tenant_id, account_id)
    THEN AppOutcome(AuthorizationError, A, None)
    ELSE AppOutcome(OK, Append(A, AppRow(tenant_id, name, config_data, account_id)), Len(A) + 1)

AppService_update_app(J, A, app_id, account_id, updates) ==
    IF ~AppExists(A, app_id)
    THEN AppOutcome(ResourceNotFoundError, A, None)
    ELSE IF ~is_member(J, A[app_id].tenant_id, account_id)
    THEN AppOutcome(AuthorizationError, A, None)
    ELSE AppOutcome(OK, repo_update(A, app_id, updates), app_id)

AppService_update_app_config(J, A, app_id, account_id, config_data) ==
    IF ~AppExists(A, app_id)
    THEN AppOutcome(ResourceNotFoundError, A, None)
    ELSE IF ~is_member(J, A[app_id].tenant_id, account_id)
    THEN AppOutcome(AuthorizationError, A, None)
    ELSE AppOutcome(OK, [A EXCEPT ![app_id].model_config = config_data], app_id)

AppService_delete_app(J, A, app_id, account_id) ==
    IF ~AppExists(A, app_id)
    THEN AppOutcome(ResourceNotFoundError, A, None)
    ELSE IF get_member_role(J, A[app_id].tenant_id, account_id) \notin {OWNER, ADMIN}
    THEN AppOutcome(AuthorizationError, A, None)
    ELSE AppOutcome(OK, [A EXCEPT ![app_id] = DeletedApp], None)

AppService_archive_app(J, A, app_id, account_id) ==
    IF ~AppExists(A, app_id)
    THEN AppOutcome(ResourceNotFoundError, A, None)
    ELSE IF ~is_member(J, A[app_id].tenant_id, account_id)
    THEN AppOutcome(AuthorizationError, A, None)
    ELSE AppOutcome(OK, repo_update(A, app_id, [status |-> ARCHIVED]), app_id)

AppService_unarchive_app(J, A, app_id, account_id) ==
    IF ~AppExists(A, app_id)
    THEN AppOutcome(ResourceNotFoundError, A, None)
    ELSE IF ~is_member(J, A[app_id].tenant_id, account_id)
    THEN AppOutcome(AuthorizationError, A, None)
    ELSE AppOutcome(OK, repo_update(A, app_id, [status |-> NORMAL]), app_id)

AppService_get_tenant_apps(T, J, A, tenant_id, account_id, include_archived) ==
    IF ~TenantExists(T, tenant_id)
    THEN AppOutcome(ResourceNotFoundError, A, None)
    ELSE IF ~is_member(J, tenant_id, account_id)
    THEN AppOutcome(AuthorizationError, A, None)
    ELSE IF include_archived
    THEN AppOutcome(OK, A, get_by_tenant(A, tenant_id))
    ELSE AppOutcome(OK, A, get_active_apps_by_tenant(A, tenant_id))

AppService_get_app_detail(J, A, app_id, account_id) ==
    IF ~AppExists(A, app_id)
    THEN AppOutcome(ResourceNotFoundError, A, None)
    ELSE IF ~is_member(J, A[app_id].tenant_id, account_id)
    THEN AppOutcome(AuthorizationError, A, None)
    ELSE AppOutcome(OK, A, app_id)

AppService_toggle_site(J, A, app_id, account_id, enable) ==
    IF ~AppExists(A, app_id)
    THEN AppOutcome(ResourceNotFoundError, A, None)
    ELSE IF ~is_member(J, A[app_id].tenant_id, account_id)
    THEN AppOutcome(AuthorizationError, A, None)
    ELSE AppOutcome(OK, repo_update(A, app_id, [enable_site |-> enable]), app_id)

AppService_toggle_api(J, A, app_id, account_id, enable) ==
    IF ~AppExists(A, app_id)
    THEN AppOutcome(ResourceNotFoundError, A, None)
    ELSE IF ~is_member(J, A[app_id].tenant_id, account_id)
    THEN AppOutcome(AuthorizationError, A, None)
    ELSE AppOutcome(OK, repo_update(A, app_id, [enable_api |-> enable]), app_id)

\* the call that completed: the tenant or app it named, the caller, the
\* exception and what it returned
AppCall(op, tenant_id, app_id, account_id, role, out) ==
    [op |-> op, tenant |-> tenant_id, app |-> app_id, account |-> account_id,
     role |-> role, exc |-> out.exc, result |-> out.result]

AppStep(op, tenant_id, app_id, account_id, out) ==
    /\ apps' = out.apps
    /\ last' = AppCall(op, tenant_id, app_id, account_id, None, out)
    /\ UNCHANGED <<tenantVars, response, accounts, model_providers, sessionVars, calls>>

create_app(tenant_id, account_id, name) ==
    /\ Len(apps) < MaxApps
    /\ AppStep("create_app", tenant_id, 0, account_id,
               AppService_create_app(tenants, tenant_account_joins, apps, tenant_id,
                                     account_id, name))

create_app_with_config(tenant_id, account_id, config_data) ==
    /\ Len(apps) < MaxApps
    /\ AppStep("create_app_with_config", tenant_id, 0, account_id,
               AppService_create_app_with_config(tenants, tenant_account_joins, apps,
                                                 tenant_id, account_id, <<"a">>, config_data))

update_app(app_id, account_id, updates) ==
    AppStep("update_app", 0, app_id, account_id,
            AppService_update_app(tenant_account_joins, apps, app_id, account_id, updates))

update_app_config(app_id, account_id) ==
    AppStep("update_app_config", 0, app_id, account_id,
            AppService_update_app_config(tenant_account_joins, apps, app_id, account_id,
                                         ConfigData))

delete_app(app_id, account_id) ==
    AppStep("delete_app", 0, app_id, account_id,
            AppService_delete_app(tenant_account_joins, apps, app_id, account_id))

archive_app(app_id, account_id) ==
    AppStep("archive_app", 0, app_id, account_id,
            AppService_archive_app(tenant_account_joins, apps, app_id, account_id))

unarchive_app(app_id, account_id) ==
    AppStep("unarchive_app", 0, app_id, account_id,
            AppService_unarchive_app(tenant_account_joins, apps, app_id, account_id))

get_tenant_apps(tenant_id, account_id, include_archived) ==
    AppStep(IF include_archived THEN "get_tenant_apps(all)" ELSE "get_tenant_apps", tenant_id, 0,
            account_id,
            AppService_get_tenant_apps(tenants, tenant_account_joins, apps, tenant_id,
                                       account_id, include_archived))

get_app_detail(app_id, account_id) ==
    AppStep("get_app_detail", 0, app_id, account_id,
            AppService_get_app_detail(tenant_account_joins, apps, app_id, account_id))

toggle_site(app_id, account_id, enable) ==
    AppStep("toggle_site", 0, app_id, account_id,
            AppService_toggle_site(tenant_account_joins, apps, app_id, account_id, enable))

toggle_api(app_id, account_id, enable) ==
    AppStep("toggle_api", 0, app_id, account_id,
            AppService_toggle_api(tenant_account_joins, apps, app_id, account_id, enable))

check_permission(tenant_id, account_id, required_role) ==
    /\ last' = [op |-> "check_permission", tenant |-> tenant_id, app |-> 0,
                account |-> account_id, role |-> required_role, exc |-> OK,
                result |-> TenantService_check_permission(tenant_account_joins, tenant_id,
                                                          account_id, required_role)]
    /\ UNCHANGED <<tenantVars, response, accounts, model_providers, apps, sessionVars, calls>>

\* the tenants of InitProvider, and no app yet
InitApp == InitProvider

\* the tenant whose memberships change, by calls of its owner
FirstTenant == 1
\* the account whose membership of FirstTenant changes; it owns a tenant of
\* its own, and the accounts after it are members of neither
AppMember == 2
AppTenants == TenantIds \cup {MaxTenants + 1}
AppIds == 1..(Len(apps) + 1)
\* updates of update_app: a new name, a status
AppUpdates == {[name |-> <<"b">>], [status |-> ARCHIVED]}

NextApp ==
    \/ \E r \in TenantRole : add_member(FirstTenant, AppMember, r, created_by[FirstTenant])
    \/ remove_member(FirstTenant, AppMember, created_by[FirstTenant])
    \/ \E r \in TenantRole :
         update_member_role(FirstTenant, AppMember, r, created_by[FirstTenant])
    \/ \E t \in AppTenants, a \in AccountIds, name \in AppNames : create_app(t, a, name)
    \/ \E t \in AppTenants, a \in AccountIds, c \in {NoConfig, ConfigData} :
         create_app_with_config(t, a, c)
    \/ \E i \in AppIds, a \in AccountIds, u \in AppUpdates : update_app(i, a, u)
    \/ \E i \in AppIds, a \in AccountIds : update_app_config(i, a)
    \/ \E i \in AppIds, a \in AccountIds : delete_app(i, a)
    \/ \E i \in AppIds, a \in AccountIds : archive_app(i, a)
    \/ \E i \in AppIds, a \in AccountIds : unarchive_app(i, a)
    \/ \E t \in AppTenants, a \in AccountIds, b \in BOOLEAN : get_tenant_apps(t, a, b)
    \/ \E i \in AppIds, a \in AccountIds : get_app_detail(i, a)
    \/ \E i \in AppIds, a \in AccountIds, b \in BOOLEAN : toggle_site(i, a, b)
    \/ \E i \in AppIds, a \in AccountIds, b \in BOOLEAN : toggle_api(i, a, b)

\* The app service, its calls run one at a time, while the owner of the first
\* tenant adds, removes and changes the role of a member.
SpecApp == InitApp /\ [][NextApp]_vars


\* check_permission calls between the membership calls of the first tenant's owner
NextPermission ==
    \/ \E a \in AccountIds, r \in TenantRole :
         add_member(FirstTenant, a, r, created_by[FirstTenant])
    \/ \E a \in AccountIds : remove_member(FirstTenant, a, created_by[FirstTenant])
    \/ \E a \in AccountIds, r \in TenantRole :
         update_member_role(FirstTenant, a, r, created_by[FirstTenant])
    \/ \E t \in AppTenants, a \in AccountIds, r \in TenantRole : check_permission(t, a, r)

SpecPermission == InitApp /\ [][NextPermission]_vars

(***************************************************************************)
(* Properties of check_permission                                          *)
(***************************************************************************)
\* the order owner > admin > member
RoleRank(role) == IF role = OWNER THEN 3 ELSE IF role = ADMIN THEN 2 ELSE 1

\* C12: check_permission(tenant, account, required) returns true exactly
\* when the account has a role in the tenant and that role is at least the
\* required one in the order owner > admin > member; it returns false for
\* every required role when the account is not a member.
C12_CheckPermission ==
    last.op = "check_permission" =>
        LET role == get_member_role(tenant_account_joins, last.tenant, last.account)
        IN  last.result = (role # None /\ RoleRank(role) >= RoleRank(last.role))

\* an admin was refused the owner's permission
C12_AdminBelowOwner ==
    /\ last.op = "check_permission"
    /\ get_member_role(tenant_account_joins, last.tenant, last.account) = ADMIN
    /\ last.role = OWNER
    /\ last.result = FALSE

(***************************************************************************)
(* Properties of the app service                                           *)
(***************************************************************************)
\* the tenant a completed call was about: the one it named, or the one of
\* the app it named
CallTenant(A, call) == IF call.app = 0 THEN call.tenant ELSE A[call.app].tenant_id
\* the calls of AppService other than delete_app
OtherAppOps ==
    {"create_app", "create_app_with_config", "update_app", "update_app_config",
     "archive_app", "unarchive_app", "get_tenant_apps", "get_tenant_apps(all)",
     "get_app_detail", "toggle_site", "toggle_api"}
\* the calls of AppService that write to an app found by its id
AppWriteOps == {"update_app", "toggle_site", "toggle_api", "archive_app", "unarchive_app"}

\* C13: delete_app removes an app only when the caller holds owner or admin
\* in the app's tenant; a caller with role member or with no membership gets
\* AuthorizationError and the app is still there; an app disappears in no
\* other step; and no other call of AppService refuses a member of the tenant
\* for lack of permission.
C13_DeleteAppElevated ==
    [][/\ (last'.op = "delete_app" /\ AppExists(apps, last'.app)) =>
            LET role == get_member_role(tenant_account_joins, apps[last'.app].tenant_id,
                                        last'.account)
            IN  IF role \in {OWNER, ADMIN}
                THEN /\ last'.exc = OK
                     /\ ~AppExists(apps', last'.app)
                ELSE /\ last'.exc = AuthorizationError
                     /\ apps' = apps
       /\ \A i \in 1..Len(apps) :
            (AppExists(apps, i) /\ ~AppExists(apps', i)) =>
                /\ last'.op = "delete_app" /\ last'.app = i
                /\ get_member_role(tenant_account_joins, apps[i].tenant_id, last'.account)
                       \in {OWNER, ADMIN}
       /\ (/\ last'.op \in OtherAppOps
           /\ last'.app # 0 => AppExists(apps, last'.app)
           /\ is_member(tenant_account_joins, CallTenant(apps, last'), last'.account)) =>
                last'.exc # AuthorizationError]_vars

\* a member who is neither owner nor admin was refused, and the app is there
C13_MemberRefused ==
    /\ last.op = "delete_app"
    /\ last.exc = AuthorizationError
    /\ AppExists(apps, last.app)
    /\ get_member_role(tenant_account_joins, apps[last.app].tenant_id, last.account) = MEMBER

\* C14: update_app, toggle_site, toggle_api, archive_app and unarchive_app
\* change an app only when the caller is, when the call is made, a member of
\* the tenant that owns the app; a caller who is not, be it that the
\* membership was removed before, gets AuthorizationError and no field of any
\* app changes.
C14_AppWritesMemberOnly ==
    [][(last'.op \in AppWriteOps /\ AppExists(apps, last'.app)) =>
          IF is_member(tenant_account_joins, apps[last'.app].tenant_id, last'.account)
          THEN /\ last'.exc = OK
               /\ \A i \in 1..Len(apps) : i # last'.app => apps'[i] = apps[i]
          ELSE /\ last'.exc = AuthorizationError
               /\ apps' = apps]_vars

\* the account that created the app, its membership removed since, was refused
C14_FormerMemberRefused ==
    /\ last.op \in AppWriteOps
    /\ last.exc = AuthorizationError
    /\ AppExists(apps, last.app)
    /\ apps[last.app].created_by = last.account

\* the app is in what get_tenant_apps returns to the owner of its tenant
Listed(T, C, J, A, i, include_archived) ==
    /\ AppExists(A, i)
    /\ LET out == AppService_get_tenant_apps(T, J, A, A[i].tenant_id, C[A[i].tenant_id],
                                             include_archived)
       IN  out.exc = OK /\ i \in out.result
ListedBefore(i, include_archived) ==
    Listed(tenants, created_by, tenant_account_joins, apps, i, include_archived)
ListedAfter(i, include_archived) ==
    Listed(tenants', created_by', tenant_account_joins', apps', i, include_archived)
\* the step is a call of op on app i that ended without an exception
Succeeded(op, i) == last'.op = op /\ last'.app = i /\ last'.exc = OK

ProviderFound(P, call) == get_by_tenant_and_id(P, call.tenant, call.provider) # {}
\* the rows other than the one of the completed call are as they were
OtherProvidersUnchanged ==
    /\ Len(model_providers') = Len(model_providers)
    /\ \A p \in 1..Len(model_providers) :
         p # last'.provider => model_providers'[p] = model_providers[p]

\* C16: activate_provider on an active provider raises BusinessLogicError and
\* leaves it active, deactivate_provider on an inactive provider raises
\* BusinessLogicError and leaves it inactive; otherwise the call succeeds and
\* flips is_active and nothing else; and is_active of a provider changes in
\* no other step, so that the successful activate and deactivate calls on
\* one provider alternate.
C16_ActivateDeactivate ==
    [][/\ (last'.op = "activate_provider" /\ ProviderFound(model_providers, last')) =>
            IF model_providers[last'.provider].is_active
            THEN /\ last'.exc = BusinessLogicError
                 /\ model_providers' = model_providers
            ELSE /\ last'.exc = OK
                 /\ model_providers' =
                        [model_providers EXCEPT ![last'.provider].is_active = TRUE]
       /\ (last'.op = "deactivate_provider" /\ ProviderFound(model_providers, last')) =>
            IF ~model_providers[last'.provider].is_active
            THEN /\ last'.exc = BusinessLogicError
                 /\ model_providers' = model_providers
            ELSE /\ last'.exc = OK
                 /\ model_providers' =
                        [model_providers EXCEPT ![last'.provider].is_active = FALSE]
       /\ \A p \in ProviderRows(model_providers) :
            (/\ model_providers'[p].exists
             /\ model_providers'[p].is_active # model_providers[p].is_active) =>
                /\ last'.op \in {"activate_provider", "deactivate_provider"}
                /\ last'.provider = p
                /\ last'.exc = OK]_vars

\* a second activate_provider was refused
C16_ActivateTwiceRefused ==
    /\ last.op = "activate_provider"
    /\ last.exc = BusinessLogicError
    /\ last.message = "Provider is already active"
    /\ ProviderFound(model_providers, last)
    /\ model_providers[last.provider].is_active

\* the providers of the tenant that have the name, and the active ones of them
NameHolders(P, tenant_id, name) ==
    {p \in ProviderRows(P) : P[p].tenant_id = tenant_id /\ P[p].name = name}
ActiveNameHolders(P, tenant_id, name) == {p \in NameHolders(P, tenant_id, name) : P[p].is_active}

\* C17: add_provider with a name that an active provider of the tenant has
\* fails with ResourceConflictError and persists nothing; add_provider with
\* a name that only inactive providers of the tenant have, and credentials
\* the adapter accepts, succeeds and adds one provider, active, with that
\* name.
C17_AddProviderActiveNames ==
    [][last'.op = "add_provider" =>
         /\ ActiveNameHolders(model_providers, last'.tenant, last'.name) # {} =>
              /\ last'.exc = ResourceConflictError
              /\ model_providers' = model_providers
         /\ (/\ NameHolders(model_providers, last'.tenant, last'.name) # {}
             /\ ActiveNameHolders(model_providers, last'.tenant, last'.name) = {}
             /\ last'.credentials = GoodCredentials) =>
              /\ last'.exc = OK
              /\ Len(model_providers') = Len(model_providers) + 1
              /\ SubSeq(model_providers', 1, Len(model_providers)) = model_providers
              /\ LET provider == model_providers'[Len(model_providers')]
                 IN  /\ provider.exists /\ provider.is_active
                     /\ provider.tenant_id = last'.tenant
                     /\ provider.name = last'.name]_vars

\* a provider was added under the name of an inactive provider of its tenant
C17_InactiveNameReused ==
    /\ last.op = "add_provider"
    /\ last.exc = OK
    /\ \E p \in NameHolders(model_providers, last.tenant, last.name) :
         p # last.provider /\ ~model_providers[p].is_active

\* the adapter is called: the checks before it have passed
AdapterCalled(T, P, call) ==
    /\ TenantExists(T, call.tenant)
    /\ Len(strip(call.name)) > 0
    /\ Len(call.name) <= MaxNameLength
    /\ ActiveNameHolders(P, call.tenant, call.name) = {}
    /\ call.credentials # NoCredentials

\* C18: when the adapter's validate_credentials raises during add_provider,
\* add_provider raises BusinessLogicError with a message that starts with
\* "Invalid credentials: " and the persisted providers are as before; no
\* other add_provider call raises BusinessLogicError.
C18_InvalidCredentials ==
    [][last'.op = "add_provider" =>
         /\ (/\ AdapterCalled(tenants, model_providers, last')
             /\ ~ModelProviderService_validate_credentials(OPENAI, last'.credentials)) =>
              /\ last'.exc = BusinessLogicError
              /\ last'.message = "Invalid credentials: "
              /\ model_providers' = model_providers
         /\ last'.exc = BusinessLogicError =>
              /\ AdapterCalled(tenants, model_providers, last')
              /\ ~ModelProviderService_validate_credentials(OPENAI, last'.credentials)]_vars

\* credentials the adapter refuses were turned down, in a tenant that has a
\* provider already
C18_CredentialsRefused ==
    /\ last.op = "add_provider"
    /\ last.exc = BusinessLogicError
    /\ last.credentials = BadCredentials
    /\ \E p \in ProviderRows(model_providers) : model_providers[p].tenant_id = last.tenant

C20_TestConnection ==
    [][(last'.op = "test_connection" /\ ProviderFound(model_providers, last')) =>
         /\ last'.exc = OK
         /\ last'.success =
              (/\ last'.reachable
               /\ ModelProviderService_validate_credentials(
                      model_providers[last'.provider].provider_type,
                      decrypt_credentials(
                          model_providers[last'.provider].encrypted_credentials)))
         /\ model_providers' = model_providers]_vars

\* the adapter raised and test_connection returned success false
C20_FailureReported ==
    /\ last.op = "test_connection"
    /\ last.exc = OK
    /\ last.success = FALSE
    /\ ProviderFound(model_providers, last)



(***************************************************************************)
(* Properties of tokens and passwords                                      *)
(***************************************************************************)
\* the account a token names: its id when the claim is the text of an id
\* of a row that exists, 0 otherwise
TokenAccount(A, token) ==
    IF token = MalformedToken THEN 0
    ELSE IF ~IsUuidStr(token.payload.account_id) THEN 0
    ELSE IF ~get_by_id(A, UUID(token.payload.account_id)) THEN 0
    ELSE UUID(token.payload.account_id)
IsActive(A, a) == a # 0 /\ A[a].status = ACTIVE

\* verify_token of a token issued this instant for an active account
\* returns that account
RoundTrip ==
    \A a \in 1..Len(accounts), b \in BOOLEAN :
        (get_by_id(accounts, a) /\ accounts[a].status = ACTIVE) =>
            LET token == AuthService_generate_token(a, accounts[a].email, utcnow)
                out == AuthService_verify_token(accounts, token, utcnow, b)
            IN  out.exc = OK /\ out.account = a

\* C21: for an account whose status is active, verify_token of a token that
\* login has just issued for it returns the account with the same id; and
\* verify_token of a token whose exp lies in the past raises
\* AuthenticationError.
C21_TokenRoundTrip ==
    /\ []RoundTrip
    /\ [][/\ (last'.op = "login" /\ last'.exc = OK) =>
               \A b \in BOOLEAN :
                   LET out == AuthService_verify_token(accounts', last'.token, utcnow', b)
                   IN  /\ out.exc = OK
                       /\ out.account \in get_by_email(accounts, last'.email)
          /\ (/\ last'.op = "verify_token"
              /\ last'.token # MalformedToken
              /\ last'.token.payload.exp < utcnow) =>
                 last'.exc = AuthenticationError]_vars

\* a token that login issued was verified and its account returned
C21_IssuedTokenVerified ==
    /\ last.op = "verify_token"
    /\ last.token \in tokens
    /\ last.exc = OK
    /\ last.account = UUID(last.token.payload.account_id)

\* C22: verify_token succeeds only if the account its token names exists and
\* is active when it is called; a token that login issued is refused with
\* AuthenticationError whenever its account is banned, inactive or deleted;
\* and verify_token raises nothing but AuthenticationError.
C22_VerifyToken ==
    [][last'.op = "verify_token" =>
          /\ last'.exc = OK =>
                 /\ last'.account = TokenAccount(accounts, last'.token)
                 /\ IsActive(accounts, last'.account)
          /\ (last'.token \in tokens
                 /\ ~IsActive(accounts, TokenAccount(accounts, last'.token))) =>
                 last'.exc = AuthenticationError
          /\ last'.exc \in {OK, AuthenticationError}]_vars

\* what login answers to a password in a table
LoginExc(A, a, password) == AuthService_login(A, utcnow, A[a].email, password).exc

\* the outcome of change_password by the first check that fails; a call that
\* raises leaves the table as it was, one that returns replaces the hash
ChangePasswordOutcome ==
    LET a == last'.account
    IN  IF ~get_by_id(accounts, a)
        THEN last'.exc = ResourceNotFoundError /\ accounts' = accounts
        ELSE IF ~check_password_hash(accounts[a].password_hash, last'.old_password)
        THEN last'.exc = AuthenticationError /\ accounts' = accounts
        ELSE IF Len(last'.new_password) < MinPasswordLength
        THEN last'.exc = ValidationError /\ accounts' = accounts
        ELSE /\ last'.exc = OK
             /\ accounts' = [accounts EXCEPT
                                ![a].password_hash = generate_password_hash(last'.new_password)]

\* C23 as stated: change_password fails with ResourceNotFoundError if the
\* account is missing, else with AuthenticationError if the old password
\* does not match, else with ValidationError if the new password has fewer
\* than 6 characters, the table unchanged in each case; and after a
\* successful call login with the old password fails and login with the new
\* password succeeds.
C23_Original ==
    [][last'.op = "change_password" =>
          /\ ChangePasswordOutcome
          /\ last'.exc = OK =>
                 /\ LoginExc(accounts', last'.account, last'.old_password) # OK
                 /\ LoginExc(accounts', last'.account, last'.new_password) = OK]_vars

\* C23: change_password fails with ResourceNotFoundError if the account is
\* missing, else with AuthenticationError if the old password does not
\* match, else with ValidationError if the new password has fewer than 6
\* characters, the table unchanged in each case; change_password does not
\* look at the status of the account, so after a successful call login with
\* the new password succeeds exactly if the account is active, and login
\* with the old password fails unless the account is active and the new
\* password is the old one.
C23_ChangePassword ==
    [][last'.op = "change_password" =>
          /\ ChangePasswordOutcome
          /\ last'.exc = OK =>
                 LET a == last'.account
                 IN  /\ LoginExc(accounts', a, last'.new_password) = OK
                            <=> accounts[a].status = ACTIVE
                     /\ LoginExc(accounts', a, last'.old_password) = OK
                            <=> (/\ accounts[a].status = ACTIVE
                                 /\ last'.old_password = last'.new_password)]_vars

\* a password was replaced by another one
C23_PasswordChanged ==
    /\ last.op = "change_password"
    /\ last.exc = OK
    /\ last.old_password # last.new_password
    /\ accounts[last.account].password_hash = generate_password_hash(last.new_password)
    /\ accounts[last.account].status = ACTIVE


(***************************************************************************)
(* Properties of the model-provider endpoints                              *)
(***************************************************************************)
\* C24: an authenticated POST to /api/console/tenants/<tenant_id>/model-providers
\* for an existing tenant, with a name no active provider of the tenant has,
\* a provider_type of the enum and credentials that pass validation, is
\* answered 201 with is_active true and adds exactly one provider, whose
\* created_by is the account jwt_required resolved.
C24_AddProviderCreated ==
    [][(/\ last'.op = "POST model-providers"
        /\ last'.operator \in AccountIds
        /\ TenantExists(tenants, last'.tenant)
        /\ Len(strip(last'.args.name)) > 0
        /\ Len(last'.args.name) <= MaxNameLength
        /\ get_active_by_tenant_and_name(model_providers, last'.tenant, last'.args.name) = {}
        /\ ParseProviderType(last'.args.provider_type) # None
        /\ ModelProviderService_validate_credentials(
               ParseProviderType(last'.args.provider_type), last'.args.credentials)) =>
           /\ response' = 201
           /\ last'.body = {[tenant_id |-> last'.tenant, name |-> last'.args.name,
                              is_active |-> TRUE, encrypted_credentials |-> None]}
           /\ Len(model_providers') = Len(model_providers) + 1
           /\ SubSeq(model_providers', 1, Len(model_providers)) = model_providers
           /\ LET row == model_providers'[Len(model_providers')]
              IN  /\ row.exists /\ row.is_active
                  /\ row.tenant_id = last'.tenant
                  /\ row.name = last'.args.name
                  /\ row.created_by = last'.operator]_vars

ProviderHttpOps ==
    {"POST model-providers", "GET model-providers", "GET model-provider", "PUT model-provider",
     "DELETE model-provider", "POST test", "POST activate", "POST deactivate"}

\* C30: a request on the model-provider endpoints of a tenant T made by
\* anyone who is not an authenticated account that is a member of T is
\* refused: it is not answered 200 or 201, its response carries nothing of
\* T's providers, and the providers are as they were.
C30_TenantIsolation ==
    [][(/\ last'.op \in ProviderHttpOps
        /\ TenantExists(tenants, last'.tenant)
        /\ \/ last'.operator \notin AccountIds
           \/ ~is_member(tenant_account_joins, last'.tenant, last'.operator)) =>
           /\ response' \notin {200, 201}
           /\ last'.body = NoBody
           /\ model_providers' = model_providers]_vars


(***************************************************************************)
(* Properties of stream_invoke                                             *)
(***************************************************************************)
\* the least index in S, n + 1 when S is empty
FirstIn(S, n) == IF S = {} THEN n + 1 ELSE CHOOSE i \in S : \A j \in S : i <= j
\* the line is the literal [DONE] once its prefix is stripped
IsDone(line) == line.text = "[DONE]"
ParsesAsJson(line) == line.text = "json"
\* the content of the first choice's delta, "" when the line has none
ContentOf(line) ==
    IF ~ParsesAsJson(line) THEN ""
    ELSE IF "choices" \notin DOMAIN line.value THEN ""
    ELSE IF Len(line.value.choices) = 0 THEN ""
    ELSE Get(Get(line.value.choices[1], "delta", EmptyDict), "content", "")
CarriesContent(line) == ContentOf(line) # ""
\* JSON that has no first choice
NotAChunk(line) ==
    /\ ParsesAsJson(line)
    /\ ("choices" \notin DOMAIN line.value \/ Len(line.value.choices) = 0)
FirstDone(lines) == FirstIn({i \in 1..Len(lines) : IsDone(lines[i])}, Len(lines))
\* the contents of the lines among the first n that carry one, in order
Contents(lines, n) ==
    LET kept == SelectSeq(SubSeq(lines, 1, n), CarriesContent)
    IN  [i \in 1..Len(kept) |-> ContentOf(kept[i])]
Deltas(chunks) == [i \in 1..Len(chunks) |-> chunks[i].delta]
Min(a, b) == IF a < b THEN a ELSE b

StreamEnd(lines) ==
    Min(FirstDone(lines), FirstIn({i \in 1..Len(lines) : NotAChunk(lines[i])}, Len(lines)))

Returned(p) == calls[p].pc = "returned" /\ calls[p].exc = OK

\* C26: the calls of get_llm_provider (of get_embedding_provider) for a
\* supported type all return the same adapter instance, also when they run
\* concurrently before an instance is cached; and a call for a type its
\* family does not support raises ValueError and adds no entry to either
\* cache.
C26_Singleton ==
    /\ [](\A p, q \in Procs :
            (/\ Returned(p) /\ Returned(q)
             /\ calls[p].family = calls[q].family
             /\ calls[p].provider_type = calls[q].provider_type) =>
                calls[p].result = calls[q].result)
    /\ [][\A p \in Procs :
            (calls'[p] # calls[p] /\ calls'[p].exc = ValueError) =>
                /\ calls'[p].provider_type # SupportedType(calls'[p].family)
                /\ llm_providers' = llm_providers
                /\ embedding_providers' = embedding_providers]_vars


(***************************************************************************)
(* Properties of concurrent add_provider calls                             *)
(***************************************************************************)
\* the call of p is at its insert with credentials the adapter accepts
AtInsert(p) ==
    /\ calls[p].op = "add_provider"
    /\ calls[p].pc = "create"
    /\ calls[p].credentials # NoCredentials
    /\ ModelProviderService_validate_credentials(calls[p].provider_type, calls[p].credentials)

\* the active rows of tenant t named name
ActiveNamed(t, name) == get_active_by_tenant_and_name(model_providers, t, name)

\* C27: an add_provider call that passed the active-name check with valid
\* credentials succeeds and adds its active row whatever another call has
\* persisted in between: the insert is never rejected, so two concurrent
\* calls with the same (tenant, name) that both passed the check both
\* succeed and leave two active providers of that name.
C27_SecondInsertAccepted ==
    [][\A p \in Procs :
          (AtInsert(p) /\ calls'[p] # calls[p]) =>
              /\ last'.exc = OK
              /\ Len(model_providers') = Len(model_providers) + 1
              /\ model_providers'[Len(model_providers')].is_active
              /\ model_providers'[Len(model_providers')].tenant_id = calls[p].tenant
              /\ model_providers'[Len(model_providers')].name = calls[p].name
              /\ Cardinality(get_active_by_tenant_and_name(model_providers', calls[p].tenant,
                                                           calls[p].name))
                    = Cardinality(ActiveNamed(calls[p].tenant, calls[p].name)) + 1]_vars

\* both calls have returned and two active providers of one tenant carry
\* the same name
C27_TwoActiveSameName ==
    /\ \A p \in Procs : calls[p].pc = "idle"
    /\ last.op = "add_provider" /\ last.exc = OK
    /\ \E t \in TenantIds, name \in AddProviderNames : Cardinality(ActiveNamed(t, name)) = 2


(***************************************************************************)
(* Properties of remove_member under concurrent role changes               *)
(***************************************************************************)
\* the role account a holds in tenant t now
RoleNow(t, a) == get_member_role(tenant_account_joins, t, a)

\* C28: the delete of remove_member is a round-trip of its own that looks at
\* no role: a call that passed its role checks deletes the target's row and
\* returns normally whatever the operator's and the target's roles have
\* become since, so a removal takes effect that the rule no longer permits.
C28_DeleteUnchecked ==
    [][\A p \in Procs :
          (calls[p].pc = "delete" /\ calls'[p] # calls[p]) =>
              /\ last'.op = "remove_member" /\ last'.exc = OK
              /\ get_member_role(tenant_account_joins', calls[p].tenant, calls[p].account)
                    = None
              /\ \A a \in AccountIds \ {calls[p].account} :
                    tenant_account_joins'[<<calls[p].tenant, a>>]
                      = tenant_account_joins[<<calls[p].tenant, a>>]]_vars

\* an admin's call has deleted a target that was an admin when it was deleted
C28_PromotedAdminDeleted ==
    /\ last.op = "remove_member" /\ last.exc = OK
    /\ last.role = ADMIN
    /\ RoleNow(last.tenant, last.operator) = ADMIN

\* a call has deleted its target after its operator was demoted to member or
\* removed
DemotedOperatorDeleted ==
    /\ last.op = "remove_member" /\ last.exc = OK
    /\ last.role # None
    /\ last.operator # last.account
    /\ RoleNow(last.tenant, last.operator) \in {MEMBER, None}


(***************************************************************************)
(* Properties of create_tenant as other requests see it                    *)
(***************************************************************************)
\* the accounts that hold owner in tenant t
OwnersOf(t) == {a \in AccountIds : get_member_role(tenant_account_joins, t, a) = OWNER}

\* C29: create_tenant is all-or-nothing for the other requests: in every
\* state they can observe, a tenant that exists has the owner membership of
\* its creator, and no tenant is left without it.
C29_CreateTenantAtomic ==
    \A t \in TenantIds :
        TenantExists(tenants, t) => created_by[t] \in OwnersOf(t)

=============================================================================
